---- MODULE Spec2Model ----
(***************************************************************************)
(* Model of realgas-rs: the mixture builder and the parser of gas          *)
(* descriptions (src/lib/gas.rs), the table of compounds                   *)
(* (src/lib/compounds.rs), the equations of state (src/lib/lib.rs,         *)
(* src/src/eos.rs) and the command-line tool (src/bin/main.rs).            *)
(*                                                                         *)
(* Mixture::new is a pure function from a sequence of Comp values to       *)
(* Result<Mixture, MixtureError>.  The specification Spec has one caller   *)
(* of it (as in the tests of src/lib/gas.rs): the component list it        *)
(* passes, the result of the call, and the previous call when the caller   *)
(* has built a related component list from it.                             *)
(*                                                                         *)
(* The specification SpecEos has one caller of the state equations: the    *)
(* call it makes (State::z and the quantities derived from it, their       *)
(* run-time dispatched forms, E::z_polyn, E::pressure, E::params and       *)
(* P::mix), the answer of the cubic solver during the call, and the        *)
(* outcome of the call, a value or a panic.                                *)
(*                                                                         *)
(* The specification SpecParse has one caller of compounds::lookup and of  *)
(* Gas::from_str, on names and descriptions given as sequences of          *)
(* characters.  The specification SpecCli has one user of the tool: the    *)
(* four option values of the subcommand z (variable cli), and the exit of  *)
(* run with the calls of z_eos it made.  The specification SpecPar has     *)
(* two callers that share one gas (variable par) and make calls of         *)
(* State::pressure, one statement of the function at a time.               *)
(*                                                                         *)
(* f64 values are modelled as exact rationals plus NaN and the two         *)
(* infinities; rounding is not modelled, so a sum "within 1e-7 of 1" of    *)
(* the source is the exact sum 1 here.  The mixture builder uses rationals *)
(* <<num, den>> in lowest terms over machine integers, the state equations *)
(* rationals <<sign, num, den>> over naturals of any size.                 *)
(***************************************************************************)
EXTENDS Integers, Sequences, FiniteSets, TLC

\* ------------------------------------------------------------------ bounds
\* Longest component list the caller passes to Mixture::new directly.
MaxLen == 3

\* ------------------------------------------------------------------ f64
Abs(n) == IF n < 0 THEN -n ELSE n

RECURSIVE Gcd(_, _)
Gcd(a, b) == IF b = 0 THEN a ELSE Gcd(b, a % b)

\* The f64 n/d (d > 0), in lowest terms.
Frac(n, d) ==
    LET g == Gcd(Abs(n), d) IN <<n \div g, d \div g>>

NaN == <<0, 0>>
Zero == <<0, 1>>
One == <<1, 1>>

IsNan(x) == x[2] = 0

FAdd(x, y) == Frac(x[1] * y[2] + y[1] * x[2], x[2] * y[2])
FSub(x, y) == Frac(x[1] * y[2] - y[1] * x[2], x[2] * y[2])
FMul(x, y) == Frac(x[1] * y[1], x[2] * y[2])
\* x / (n as f64) for an integer n > 0
FDivInt(x, n) == Frac(x[1], x[2] * n)

\* Comparisons of two f64 that are not NaN
FLt(x, y) == x[1] * y[2] < y[1] * x[2]
FLe(x, y) == x[1] * y[2] <= y[1] * x[2]

\* f64::partial_cmp: None when either side is NaN
F64PartialCmp(x, y) ==
    IF IsNan(x) \/ IsNan(y) THEN "None"
    ELSE IF FLt(x, y) THEN "Less"
    ELSE IF FLt(y, x) THEN "Greater"
    ELSE "Equal"

\* Option::or_else on the result of a partial_cmp: the alternative is used
\* only when the first comparison is None.
OrElse(o, alt) == IF o = "None" THEN alt ELSE o

\* Lexicographic chaining used by the derived PartialOrd of structs and
\* tuples: the next field is compared only when this one is Equal.
ThenCmp(o, next) == IF o = "Equal" THEN next ELSE o

\* Reverse<T>::partial_cmp(a, b) = T::partial_cmp(b, a)
ReverseCmp(o) ==
    IF o = "Less" THEN "Greater" ELSE IF o = "Greater" THEN "Less" ELSE o

\* ------------------------------------------------------------------ molecules
\* #[derive(PartialOrd)] for Pvt: p, then v, then t
PvtPartialCmp(a, b) ==
    ThenCmp(F64PartialCmp(a.p, b.p),
        ThenCmp(F64PartialCmp(a.v, b.v), F64PartialCmp(a.t, b.t)))

\* impl PartialOrd for Molecule
MoleculePartialCmp(a, b) ==
    OrElse(OrElse(F64PartialCmp(a.m, b.m),
                  PvtPartialCmp(a.critical_state, b.critical_state)),
           F64PartialCmp(a.w, b.w))

\* The fields of a molecule are held in units that make them integers, so
\* that comparing two of them stays within TLC's integers: m in 1e-7 kg/mol,
\* p in Pa, v in 1e-7 m3/mol, t in 0.1 K, w in 1e-3.
Molecule(m, p, v, t, w) ==
    [ m |-> Frac(m, 1),
      critical_state |-> [p |-> Frac(p, 1), v |-> Frac(v, 1), t |-> Frac(t, 1)],
      w |-> Frac(w, 1) ]

\* A molecule whose molar mass or critical temperature is not a whole number
\* of these units
MoleculeOf(m, p, v, t, w) ==
    [ m |-> m,
      critical_state |-> [p |-> Frac(p, 1), v |-> Frac(v, 1), t |-> t],
      w |-> Frac(w, 1) ]

\* compounds::O2
O2 == Molecule(319988, 5040000, 734, 1546, 25)

\* compounds::C4H10 (n-butane)
C4H10 == Molecule(581222, 3800000, 2550, 4252, 199)

\* A caller-defined Molecule (the struct and its fields are public): the
\* isomer isobutane, with the molar mass of C4H10 and its own critical state.
ISOBUTANE == Molecule(581222, 3640000, 2627, 4081, 186)

Molecules == {O2, C4H10, ISOBUTANE}

\* The other molecules of src/lib/compounds.rs
\* compounds::AR (argon)
AR == Molecule(399480, 4870000, 749, 1508, 1)

\* compounds::BR2 (bromine)
BR2 == Molecule(1598080, 10340000, 1272, 5880, 108)

\* compounds::CL2 (chlore)
CL2 == Molecule(709060, 7980000, 1238, 4169, 90)

\* compounds::F2 (fluor)
F2 == Molecule(379968, 5220000, 663, 1443, 54)

\* compounds::HE (helium)
HE ==
    MoleculeOf(Frac(2001301, 50), 227000, 574, Frac(519, 10), -365)

\* compounds::H2 (hydrogen)
H2 ==
    MoleculeOf(Frac(100794, 5), 1290000, 643, Frac(330, 1), -216)

\* compounds::I2 (iode)
I2 ==
    MoleculeOf(Frac(12690447, 5), 11650000, 1550, Frac(8190, 1), 229)

\* compounds::KR (krypton)
KR == Molecule(837980, 5500000, 912, 2094, 5)

\* compounds::NE (neon)
NE == Molecule(201797, 2760000, 416, 444, -29)

\* compounds::N2 (nitrogen)
N2 == Molecule(280134, 3390000, 898, 1262, 39)

\* compounds::XE (xenon)
XE == Molecule(1312930, 5840000, 663, 2897, 8)

\* compounds::C2H2 (acetylene)
C2H2 == Molecule(260373, 6140000, 1127, 3083, 190)

\* compounds::C6H6 (benzene)
C6H6 == Molecule(781118, 4890000, 2590, 5621, 212)

\* compounds::C4H8 (cyclobutane)
C4H8 == Molecule(561063, 4990000, 2100, 4600, 181)

\* compounds::C6H12 (cyclohexane)
C6H12 == Molecule(841595, 4070000, 3080, 5538, 212)

\* compounds::C3H6 (cyclopropane)
C3H6 == Molecule(420797, 5490000, 1630, 3978, 130)

\* compounds::C2H6 (ethane)
C2H6 == Molecule(300690, 4880000, 1483, 3054, 99)

\* compounds::C2H4 (ethylene)
C2H4 == Molecule(280532, 5040000, 1304, 2824, 89)

\* compounds::NH3 (ammonia)
NH3 ==
    MoleculeOf(Frac(851526, 5), 11350000, 725, Frac(4055, 1), 250)

\* compounds::CO2 (carbon dioxide)
CO2 == Molecule(440095, 7380000, 939, 3041, 239)

\* compounds::CO (carbon monoxide)
CO == Molecule(280101, 3500000, 932, 1329, 66)

\* compounds::NO (nitric oxide)
NO == Molecule(300061, 6480000, 577, 1800, 588)

\* compounds::SO2 (sulfur dioxide)
SO2 == Molecule(640660, 7880000, 1222, 4308, 256)

\* compounds::SO3 (sulfur trioxide)
SO3 == Molecule(800660, 8210000, 1273, 4910, 481)

\* compounds::H2O (water)
H2O ==
    MoleculeOf(Frac(900764, 5), 22120000, 571, Frac(6473, 1), 344)

\* compounds::CH3COOH (acetic acid)
CH3COOH == Molecule(600520, 5790000, 663, 5927, 90)

\* compounds::C3H6O (acetone)
C3H6O == Molecule(580791, 4700000, 2090, 5081, 304)

\* compounds::C2H5OH (ethanol)
C2H5OH ==
    MoleculeOf(Frac(2303422, 5), 6140000, 1671, Frac(5139, 1), 644)

\* compounds::CH3OH (methanol)
CH3OH ==
    MoleculeOf(Frac(1602147, 5), 8090000, 1180, Frac(5126, 1), 556)

\* compounds::CH3CL (methyl chloride)
CH3CL == Molecule(504905, 6700000, 1389, 4163, 153)

\* ------------------------------------------------------------------ Gas, Comp
GasMolecule(m) == [kind |-> "Molecule", m |-> m]
GasMixture(cs) == [kind |-> "Mixture", comps |-> cs]

Factor(f, g) == [kind |-> "Factor", f |-> f, g |-> g]
Remainder(g) == [kind |-> "Remainder", g |-> g]

\* Result<Mixture, MixtureError>
Ok(cs) == [tag |-> "Ok", comps |-> cs]
MixtureNotWhole == [tag |-> "Err", err |-> "MixtureNotWhole", f |-> NaN]
InvalidFraction(f) == [tag |-> "Err", err |-> "InvalidFraction", f |-> f]

\* ------------------------------------------------------------------ Mixture::new
\* One iteration of the flattening push (gas.rs 81-94) for component (f, g):
\* the entries appended to tmp. An entry is <<remainder flag, fraction, molecule>>.
RECURSIVE PushNested(_, _, _)
PushNested(tmp, f, comps) ==
    IF comps = <<>> THEN tmp
    ELSE LET c == Head(comps) IN
         PushNested(
            Append(tmp, IF IsNan(f) THEN <<TRUE, c[1], c[2]>>
                                    ELSE <<FALSE, FMul(f, c[1]), c[2]>>),
            f, Tail(comps))

PushGas(tmp, f, g) ==
    IF g.kind = "Molecule" THEN Append(tmp, <<IsNan(f), f, g.m>>)
    ELSE PushNested(tmp, f, g.comps)

\* The loop over the input (gas.rs 66-95). st is the loop state
\* [err, tmp, fill, num_voids]; err is None or the error returned early.
None == [tag |-> "None"]

\* A validation that lets the ends 0 and 1 through (f < 0 || f > 1)
IsInvalidFractionStrict(f) == FLt(f, Zero) \/ FLt(One, f)

\* The validation of an explicit fraction (gas.rs 76)
IsInvalidFraction(f) == FLe(f, Zero) \/ FLe(One, f)

RECURSIVE CollectLoop(_, _)
CollectLoop(cs, st) ==
    IF cs = <<>> THEN st
    ELSE LET c == Head(cs)
             f == IF c.kind = "Factor" THEN c.f ELSE NaN
             g == c.g
         IN IF IsNan(f)
            THEN CollectLoop(Tail(cs),
                    [st EXCEPT !.num_voids = @ + 1, !.tmp = PushGas(@, f, g)])
            ELSE IF IsInvalidFraction(f)
            THEN [st EXCEPT !.err = InvalidFraction(f)]
            ELSE CollectLoop(Tail(cs),
                    [st EXCEPT !.fill = FAdd(@, f), !.tmp = PushGas(@, f, g)])

Collect(cs) ==
    CollectLoop(cs, [err |-> None, tmp |-> <<>>, fill |-> Zero, num_voids |-> 0])

\* A void weight that is not divided among the voids
VoidAttribUndivided(fill, num_voids) == FSub(One, fill)

\* The weight of one void (gas.rs 105)
VoidAttrib(fill, num_voids) == FDivInt(FSub(One, fill), num_voids)

\* A void attribution that overwrites the fraction of every Remainder entry,
\* the entries of a nested mixture included (c.1 = void_attrib in both arms)
AttributeOverwrite(tmp, fill, num_voids) ==
    LET void_attrib == VoidAttrib(fill, num_voids)
        attr(c) == IF num_voids > 0 /\ c[1] THEN void_attrib ELSE c[2]
    IN [i \in 1..Len(tmp) |-> <<attr(tmp[i]), tmp[i][3]>>]

\* Void attribution (gas.rs 104-115) followed by dropping the flag (gas.rs 117)
Attribute(tmp, fill, num_voids) ==
    LET void_attrib == VoidAttrib(fill, num_voids)
        attr(c) == IF num_voids > 0 /\ c[1]
                   THEN IF IsNan(c[2]) THEN void_attrib ELSE FMul(c[2], void_attrib)
                   ELSE c[2]
    IN [i \in 1..Len(tmp) |-> <<attr(tmp[i]), tmp[i][3]>>]

\* The comparator of sort_by (gas.rs 126-130):
\* Reverse((fa, ma)).partial_cmp(&Reverse((fb, mb))), a tuple compared
\* lexicographically. The unwrap never sees None here: no fraction is NaN
\* after the attribution and no field of the molecules above is NaN.
CompCmp(a, b) ==
    ReverseCmp(ThenCmp(F64PartialCmp(a[1], b[1]), MoleculePartialCmp(a[2], b[2])))

\* slice::sort_by is a stable sort: an element goes before the first element
\* that it is Less than, after everything it is Equal to or Greater than.
RECURSIVE InsertSorted(_, _)
InsertSorted(sorted, x) ==
    IF sorted = <<>> THEN <<x>>
    ELSE LET last == sorted[Len(sorted)] IN
         IF CompCmp(x, last) = "Less"
         THEN Append(InsertSorted(SubSeq(sorted, 1, Len(sorted) - 1), x), last)
         ELSE Append(sorted, x)

RECURSIVE SortFrom(_, _)
SortFrom(sorted, rest) ==
    IF rest = <<>> THEN sorted
    ELSE SortFrom(InsertSorted(sorted, Head(rest)), Tail(rest))

SortBy(comps) == SortFrom(<<>>, comps)

\* Vec::remove(i), i counted from 0
RemoveAt(comps, i) ==
    SubSeq(comps, 1, i) \o SubSeq(comps, i + 2, Len(comps))

\* The merge loop (gas.rs 133-143); i1 and i2 are counted from 0 as in the source
RECURSIVE MergeLoop(_, _, _)
MergeLoop(comps, i1, i2) ==
    IF ~(i2 < Len(comps)) THEN comps
    ELSE IF comps[i1 + 1][2] = comps[i2 + 1][2]
    THEN MergeLoop(
            RemoveAt([comps EXCEPT ![i1 + 1][1] = FAdd(@, comps[i2 + 1][1])], i2),
            i1, i2)
    ELSE MergeLoop(comps, i1 + 1, i2 + 1)

Merge(comps) == MergeLoop(comps, 0, 1)

\* A fill check without the test for a gap that no Remainder absorbs
\* (gas.rs 100-102 left out)
NotWholeOverfillOnly(fill, num_voids) == FLt(One, fill)

\* The fill checks (gas.rs 97-102)
NotWhole(fill, num_voids) ==
    \/ FLt(One, fill)
    \/ fill # One /\ num_voids = 0

\* Mixture::new
MixtureNew(cs) ==
    LET st == Collect(cs) IN
    IF st.err # None THEN st.err
    ELSE IF NotWhole(st.fill, st.num_voids) THEN MixtureNotWhole
    ELSE Ok(Merge(SortBy(Attribute(st.tmp, st.fill, st.num_voids))))

\* ------------------------------------------------------------------ callers
\* The fractions the caller writes in Factor components: three valid ones
\* and the two ends of the open interval (0, 1), which are invalid.
ValidFractions == {Frac(1, 6), Frac(1, 3), Frac(1, 2)}
InvalidFractions == {Zero, One}

\* The components of a directly written input. No Factor is written with a
\* NaN fraction (gas.rs 73 would count it as a Remainder).
CompSet ==
    {Factor(f, GasMolecule(m)) : f \in ValidFractions, m \in Molecules}
    \cup {Factor(f, GasMolecule(O2)) : f \in InvalidFractions}
    \cup {Remainder(GasMolecule(m)) : m \in Molecules}

Inputs == UNION {[1..n -> CompSet] : n \in 0..MaxLen}

\* Inputs that use an already built Mixture mx as a gas: the shapes of mix1
\* and mix2 of tests::can_compare_identical_mixtures_built_in_any_order, a
\* Factor-only list, and a list with two Remainders.
NestedInputs(mx) ==
    UNION {{ <<Factor(f, GasMolecule(O2)), Remainder(mx)>>,
             <<Factor(f, mx), Remainder(GasMolecule(O2))>>,
             <<Factor(f, mx), Factor(f, GasMolecule(O2))>>,
             <<Factor(f, GasMolecule(O2)), Remainder(mx),
               Remainder(GasMolecule(C4H10))>> } : f \in ValidFractions}

IsFlat(cs) == \A i \in 1..Len(cs) : cs[i].g.kind = "Molecule"

Pending == [tag |-> "Pending"]
NoCall == [tag |-> "NoCall"]
NoRun == [tag |-> "NoRun"]

Swap(cs, i, j) == [cs EXCEPT ![i] = cs[j], ![j] = cs[i]]

\* The explicit fill and the number of Remainder components of an input,
\* read off the input itself.
RECURSIVE ExplicitFill(_)
ExplicitFill(cs) ==
    IF cs = <<>> THEN Zero
    ELSE IF Head(cs).kind = "Factor" THEN FAdd(Head(cs).f, ExplicitFill(Tail(cs)))
    ELSE ExplicitFill(Tail(cs))

NumRemainders(cs) == Cardinality({i \in 1..Len(cs) : cs[i].kind = "Remainder"})

VoidWeight(cs) == FDivInt(FSub(One, ExplicitFill(cs)), NumRemainders(cs))

\* The flat components that stand for component c of input cs: each molecule
\* of a nested mixture with its share of the fraction of c.
FlatComps(cs, c) ==
    IF c.g.kind = "Molecule" THEN <<c>>
    ELSE LET w == IF c.kind = "Factor" THEN c.f ELSE VoidWeight(cs) IN
         [k \in 1..Len(c.g.comps) |->
            Factor(FMul(w, c.g.comps[k][1]), GasMolecule(c.g.comps[k][2]))]

\* ------------------------------------------------------------------ numbers of the state equations
\* The quantities of the equations of state (R = 8.31446262, coefficients of
\* up to 17 digits, their products) do not fit the integers of TLC, so the
\* f64 values of this part are exact rationals over natural numbers of any
\* size.
\*
\* A natural number: its digits in base 10000, least significant first, with
\* no zero at the top; <<>> is 0.

\* The functions of this part are called by name: Call(f, x) is the value of
\* the function named f on the arguments x, and is defined once all of them
\* are. The operators that follow give each call its usual form.
RECURSIVE Call(_, _)
NMul(a, b) == Call("mul", <<a, b>>)
NDivMod(a, b) == Call("divmod", <<a, b>>)
NGcd(a, b) == Call("gcd", <<a, b>>)
NSqrt(a) == Call("isqrt", <<a>>)

\* The largest of a set of indices, 0 for none
Top(idx) == IF idx = {} THEN 0 ELSE CHOOSE i \in idx : \A j \in idx : j <= i

\* a without the zero digits above its top
NStrip(a) ==
    IF a = <<>> \/ a[Len(a)] # 0 THEN a
    ELSE SubSeq(a, 1, Top({i \in 1..Len(a) : a[i] # 0}))

\* Digit i of a, 0 above its top
NDigit(a, i) == IF i <= Len(a) THEN a[i] ELSE 0

\* One pass of carries over digits that may exceed the base: every digit
\* keeps its low part and takes the high part of the digit below
NPass(c) ==
    [i \in 1..(Len(c) + 1) |->
        (NDigit(c, i) % 10000) + (IF i > 1 THEN c[i - 1] \div 10000 ELSE 0)] \o <<>>

\* The number whose digits, not yet carried, are c
RECURSIVE NCarry(_)
NCarry(c) ==
    IF \A i \in 1..Len(c) : c[i] < 10000 THEN NStrip(c) ELSE NCarry(NPass(c))

NAdd(a, b) ==
    LET n == IF Len(a) < Len(b) THEN Len(b) ELSE Len(a) IN
    NCarry([i \in 1..n |-> NDigit(a, i) + NDigit(b, i)] \o <<>>)

\* -1, 0 or 1 as a < b, a = b or a > b
CompareAt(a, b, i) == IF i = 0 THEN 0 ELSE IF a[i] < b[i] THEN -1 ELSE 1

NCmp(a, b) ==
    IF Len(a) < Len(b) THEN -1
    ELSE IF Len(a) > Len(b) THEN 1
    ELSE CompareAt(a, b, Top({i \in 1..Len(a) : a[i] # b[i]}))

\* a - b for a >= b: a plus the complement of b, less the top digit
NSub(a, b) ==
    NStrip(SubSeq(NCarry([i \in 1..Len(a) |->
                            a[i] + (9999 - NDigit(b, i)) + (IF i = 1 THEN 1 ELSE 0)] \o <<>>),
                  1, Len(a)))

\* a * d for one digit d
NMulLimb(a, d) ==
    IF d = 0 THEN <<>> ELSE NCarry([i \in 1..Len(a) |-> a[i] * d] \o <<>>)

\* a with k zero digits below it
NShift(a, k) == IF a = <<>> THEN <<>> ELSE [i \in 1..k |-> 0] \o a

\* The sum of a[i] * b[k + 1 - i] for i in lo..hi
RECURSIVE ColSum(_, _, _, _, _)
ColSum(a, b, k, lo, hi) ==
    IF lo > hi THEN 0
    ELSE IF lo = hi THEN a[lo] * b[k + 1 - lo]
    ELSE LET mid == (lo + hi) \div 2 IN
         ColSum(a, b, k, lo, mid) + ColSum(a, b, k, mid + 1, hi)

\* a * b for b of at most 20 digits, from the sums of its columns
NMulShort(a, b) ==
    LET la == Len(a)
        lb == Len(b)
    IN NCarry([k \in 1..(la + lb - 1) |->
                  ColSum(a, b, k, IF k + 1 - lb > 1 THEN k + 1 - lb ELSE 1,
                                  IF k < la THEN k ELSE la)] \o <<>>)


\* a * b

\* [q |-> a \div b, r |-> a % b] for b # 0

\* The greatest common divisor of a and b

\* The largest s with s * s <= a

RECURSIVE MulDigits(_, _)
MulDigits(a, b) ==
    IF a = <<>> \/ b = <<>> THEN <<>>
    ELSE IF Len(b) > Len(a) THEN MulDigits(b, a)
    ELSE IF Len(b) <= 20 THEN NMulShort(a, b)
    ELSE NAdd(NMulShort(a, SubSeq(b, 1, 20)),
              NShift(MulDigits(a, SubSeq(b, 21, Len(b))), 20))

\* The largest digit q in lo..hi with b * q <= r, given b * lo <= r
RECURSIVE QuotBetween(_, _, _, _)
QuotBetween(r, b, lo, hi) ==
    IF lo >= hi THEN lo
    ELSE LET mid == (lo + hi + 1) \div 2 IN
         IF NCmp(NMulLimb(b, mid), r) <= 0 THEN QuotBetween(r, b, mid, hi)
         ELSE QuotBetween(r, b, lo, mid - 1)

\* r \div b for r < 10000 * b: bounded below and above from the leading
\* digits of r and b, then searched
QuotScale(d) ==
    IF d >= 1000 THEN 1 ELSE IF d >= 100 THEN 10 ELSE IF d >= 10 THEN 100 ELSE 1000

\* The leading digits of r and of b at the scale k, n being the length of b
QuotTop(r, n, k) ==
    IF Len(r) > n THEN (r[n + 1] * 10000 + r[n]) * k
    ELSE IF n > 1 THEN r[n] * 10000 + r[n - 1] ELSE r[n]

QuotBottom(r, b, n, k) ==
    IF Len(r) > n
    THEN b[n] * k + (IF n > 1 THEN b[n - 1] \div (10000 \div k) ELSE 0)
    ELSE IF n > 1 THEN b[n] * 10000 + b[n - 1] ELSE b[n]

QuotWithin(r, b, rt, bt, up) ==
    QuotBetween(r, b, rt \div (bt + 1),
                IF (rt + up) \div bt > 9999 THEN 9999 ELSE (rt + up) \div bt)

QuotAtScale(r, b, n, k) ==
    QuotWithin(r, b, QuotTop(r, n, k), QuotBottom(r, b, n, k),
               IF Len(r) > n THEN k ELSE 1)

QuotDigit(r, b) ==
    IF NCmp(r, b) < 0 THEN 0
    ELSE QuotAtScale(r, b, Len(b), QuotScale(b[Len(b)]))

\* Long division of a by b, a state x of which is the next digit i of a to
\* take, the digits q of the quotient so far and the running remainder r.
\* One step, up to 2^k steps, and the x.i steps to the end; the steps are
\* halved rather than chained so that the evaluation stays shallow.
DivDigit(b, x, r1, d) ==
    [i |-> x.i - 1, q |-> <<d>> \o x.q, r |-> NSub(r1, NMulLimb(b, d))]

DivTake(b, x, r1) == DivDigit(b, x, r1, QuotDigit(r1, b))

DivStep(a, b, x) == DivTake(b, x, NStrip(<<a[x.i]>> \o x.r))

RECURSIVE DivSteps(_, _, _, _)
DivSteps(a, b, x, k) ==
    CASE x.i = 0 -> x
      [] x.i # 0 /\ k = 0 -> DivStep(a, b, x)
      [] OTHER -> LET y == DivSteps(a, b, x, k - 1) IN DivSteps(a, b, y, k - 1)

\* The least k with n <= 2^k
RECURSIVE Doublings(_)
Doublings(n) == IF n <= 1 THEN 0 ELSE 1 + Doublings((n + 1) \div 2)

DivFrom(a, b, x) == DivSteps(a, b, x, Doublings(x.i))

\* Quotient and remainder of a by b, b # 0: long division, entered at the
\* first digit of a where the running remainder can reach b
DivResult(x) == [q |-> NStrip(x.q), r |-> x.r]

LongDivision(a, b) ==
    IF Len(a) < Len(b) THEN [q |-> <<>>, r |-> a]
    ELSE DivResult(DivFrom(a, b, [i |-> Len(a) - Len(b) + 1, q |-> <<>>,
                                  r |-> NStrip(SubSeq(a, Len(a) - Len(b) + 2, Len(a)))]))

\* Euclid's algorithm on the pair x = <<a, b>>: one step, up to 2^k steps,
\* and the steps to the end <<gcd, 0>>
GcdStep(x) == IF x[2] = <<>> THEN x ELSE <<x[2], NDivMod(x[1], x[2]).r>>

RECURSIVE GcdSteps(_, _)
GcdSteps(x, k) ==
    CASE x[2] = <<>> -> x
      [] x[2] # <<>> /\ k = 0 -> GcdStep(x)
      [] OTHER -> LET y == GcdSteps(x, k - 1) IN GcdSteps(y, k - 1)

RECURSIVE GcdFrom(_)
GcdOn(y) == IF y[2] = <<>> THEN y ELSE GcdFrom(y)
GcdFrom(x) == GcdOn(GcdSteps(x, 5))

Euclid(a, b) == IF a = <<1>> \/ b = <<1>> THEN <<1>> ELSE GcdFrom(<<a, b>>)[1]

\* a \div g for a divisor g of a
NQuot(a, g) == IF g = <<1>> THEN a ELSE NDivMod(a, g).q

\* The digits of an integer below 10^12
NFromInt(n) ==
    IF n = 0 THEN <<>>
    ELSE IF n < 10000 THEN <<n>>
    ELSE IF n < 100000000 THEN <<n % 10000, n \div 10000>>
    ELSE <<n % 10000, (n \div 10000) % 10000, n \div 100000000>>

RECURSIVE NPow10(_)
NPow10(e) ==
    IF e >= 4 THEN <<0>> \o NPow10(e - 4)
    ELSE IF e = 3 THEN <<1000>> ELSE IF e = 2 THEN <<100>>
    ELSE IF e = 1 THEN <<10>> ELSE <<1>>

RECURSIVE NReverse(_)
NReverse(s) == IF s = <<>> THEN <<>> ELSE Append(NReverse(Tail(s)), Head(s))

\* Newton's iteration from above for the largest s with s * s <= a
RECURSIVE NSqrtFrom(_, _)
NSqrtFrom(a, x) ==
    LET y == NDivMod(NAdd(x, NDivMod(a, x).q), <<2>>).q IN
    IF NCmp(y, x) >= 0 THEN x ELSE NSqrtFrom(a, y)

Newton(a) == IF a = <<>> THEN <<>> ELSE NSqrtFrom(a, NPow10(2 * Len(a)))

\* An f64 as an exact number <<sign, numerator, denominator>> in lowest
\* terms, sign in {-1, 0, 1}. A zero denominator marks the values that are
\* not numbers: <<0, 0, 0>> is NaN, <<1, 1, 0>> and <<-1, 1, 0>> the infinities.
QNaN == <<0, <<>>, <<>>>>
QInf(s) == <<s, <<1>>, <<>>>>
QZero == <<0, <<>>, <<1>>>>
QOne == <<1, <<1>>, <<1>>>>

QIsNan(x) == x = QNaN
QIsFinite(x) == x[3] # <<>>

QMake(s, n, d) ==
    IF n = <<>> \/ s = 0 THEN QZero
    ELSE LET g == NGcd(n, d) IN
         IF g = <<1>> THEN <<s, n, d>>
         ELSE <<s, NDivMod(n, g).q, NDivMod(d, g).q>>

\* The f64 of an integer literal of at most four digits
QInt(i) == IF i = 0 THEN QZero ELSE IF i < 0 THEN <<-1, <<-i>>, <<1>>>> ELSE <<1, <<i>>, <<1>>>>

\* The f64 n/d for integers n and d > 0
QRat(n, d) ==
    LET g == Gcd(Abs(n), d) IN
    IF n = 0 THEN QZero
    ELSE <<IF n < 0 THEN -1 ELSE 1, NFromInt(Abs(n) \div g), NFromInt(d \div g)>>

\* The decimal literal whose digits, in groups of four from the left, are
\* groups and whose last digit is the scale-th after the point
Decimal(groups, scale) == QMake(1, NStrip(NReverse(groups)), NPow10(scale))

QNeg(x) == <<-x[1], x[2], x[3]>>

\* A decimal literal, x * y, x / y, x + y, the sign of x - y and sqrt(x)
QDec(groups, scale) == Call("f64", <<groups, scale>>)
QMul(x, y) == Call("f64::mul", <<x, y>>)
QDiv(x, y) == Call("f64::div", <<x, y>>)
QAdd(x, y) == Call("f64::add", <<x, y>>)
QSgnDiff(x, y) == Call("f64::partial_cmp", <<x, y>>)
QSqrt(x) == Call("f64::sqrt", <<x>>)

\* The product of two numbers in lowest terms is in lowest terms once the
\* factors shared across the two fractions are taken out
Product(x, y) ==
    IF QIsFinite(x) /\ QIsFinite(y)
    THEN IF x[1] * y[1] = 0 THEN QZero
         ELSE LET g1 == NGcd(x[2], y[3])
                  g2 == NGcd(y[2], x[3])
              IN <<x[1] * y[1], NMul(NQuot(x[2], g1), NQuot(y[2], g2)),
                   NMul(NQuot(x[3], g2), NQuot(y[3], g1))>>
    ELSE IF x[1] * y[1] = 0 THEN QNaN ELSE QInf(x[1] * y[1])

QInv(x) ==
    IF ~QIsFinite(x) THEN (IF QIsNan(x) THEN QNaN ELSE QZero)
    ELSE IF x[1] = 0 THEN QInf(1)
    ELSE <<x[1], x[3], x[2]>>

Quotient(x, y) ==
    IF ~QIsFinite(y) /\ ~QIsFinite(x) THEN QNaN
    ELSE IF x[1] = 0 /\ y[1] = 0 /\ QIsFinite(x) /\ QIsFinite(y) THEN QNaN
    ELSE IF y[1] = 0 /\ QIsFinite(y) THEN (IF QIsNan(x) THEN QNaN ELSE QInf(x[1]))
    ELSE QMul(x, QInv(y))

\* The sum of two numbers in lowest terms: g is the factor their
\* denominators share, and the sum is reduced by what its numerator shares
\* with g
Sum(x, y) ==
    IF QIsFinite(x) /\ QIsFinite(y)
    THEN LET g == NGcd(x[3], y[3])
             xd == NQuot(x[3], g)
             a == NMul(x[2], NQuot(y[3], g))
             b == NMul(y[2], xd)
             s == IF x[1] = y[1] \/ NCmp(a, b) > 0 THEN x[1] ELSE y[1]
             n == IF x[1] = y[1] THEN NAdd(a, b)
                  ELSE IF NCmp(a, b) > 0 THEN NSub(a, b) ELSE NSub(b, a)
             g2 == NGcd(n, g)
         IN IF x[1] = 0 THEN y
            ELSE IF y[1] = 0 THEN x
            ELSE IF n = <<>> THEN QZero
            ELSE <<s, NQuot(n, g2), NMul(xd, NQuot(y[3], g2))>>
    ELSE IF QIsNan(x) \/ QIsNan(y) THEN QNaN
    ELSE IF ~QIsFinite(x) /\ ~QIsFinite(y) THEN (IF x[1] = y[1] THEN x ELSE QNaN)
    ELSE IF QIsFinite(x) THEN y ELSE x

QSub(x, y) == QAdd(x, QNeg(y))

\* The sign of x - y for two numbers; comparisons with NaN are false
SignOfDifference(x, y) ==
    IF QIsFinite(x) /\ QIsFinite(y)
    THEN IF x[1] # y[1] THEN (IF x[1] < y[1] THEN -1 ELSE 1)
         ELSE x[1] * NCmp(NMul(x[2], y[3]), NMul(y[2], x[3]))
    ELSE IF QIsFinite(x) THEN -y[1]
    ELSE IF QIsFinite(y) THEN x[1]
    ELSE (x[1] - y[1]) \div 2

QLt(x, y) == ~QIsNan(x) /\ ~QIsNan(y) /\ QSgnDiff(x, y) < 0
QLe(x, y) == ~QIsNan(x) /\ ~QIsNan(y) /\ QSgnDiff(x, y) <= 0

\* f64::sqrt on the squares of rationals
SquareRoot(x) ==
    IF QIsNan(x) \/ x[1] < 0 THEN QNaN
    ELSE IF ~QIsFinite(x) \/ x[1] = 0 THEN x
    ELSE LET n == NSqrt(x[2])
             d == NSqrt(x[3])
         IN CHOOSE r \in {<<1, n, d>>} : NMul(n, n) = x[2] /\ NMul(d, d) = x[3]

\* f64::max
QMax(x, y) == IF QIsNan(x) THEN y ELSE IF QIsNan(y) THEN x ELSE IF QLt(x, y) THEN y ELSE x

\* Left-to-right products, as the source writes a * b * c
RECURSIVE QProdFrom(_, _)
QProdFrom(acc, xs) ==
    IF xs = <<>> THEN acc ELSE QProdFrom(QMul(acc, Head(xs)), Tail(xs))

QProd(xs) == QProdFrom(Head(xs), Tail(xs))

\* f64::powf(2.5) on the squares of rationals
QPow25(x) == QProd(<<x, x, QSqrt(x)>>)

\* An f64 of the mixture builder as a number of this part
QOfFrac(x) == IF IsNan(x) THEN QNaN ELSE QRat(x[1], x[2])

\* ------------------------------------------------------------------ equations of state
\* Universal gas constant in J/mol.K
GasConstant == QRat(831446262, 100000000)
R == Call("R", <<>>)

\* The fields of a Molecule in the units of the source: Pa, m3/mol, K, kg/mol
CriticalState(m) ==
    [ p |-> QRat(m.critical_state.p[1], m.critical_state.p[2]),
      v |-> QRat(m.critical_state.v[1], 10000000 * m.critical_state.v[2]),
      t |-> QRat(m.critical_state.t[1], 10 * m.critical_state.t[2]) ]

AcentricFactor(m) == QRat(m.w[1], 1000 * m.w[2])

\* Pvt::z
PvtZ(cs) == QDiv(QMul(cs.p, cs.v), QMul(R, cs.t))

\* The parameter sets: (), AbParams and AbcParams
Unit == [unit |-> TRUE]
AbParams(a, b) == [a |-> a, b |-> b]
AbcParams(a, b, c) == [a |-> a, b |-> b, c |-> c]

\* impl EquationOfState for IdealGas
IdealGasParams(cs, w, t) == Unit

IdealGasPressure(params, vm, t) == QDiv(QMul(R, t), vm)

\* A polynomial Z + 1 in the place of Z - 1
IdealGasZPolynPlus(params, p, t) == <<QZero, QZero, QOne, QOne>>

IdealGasZPolyn(params, p, t) == <<QZero, QZero, QOne, QInt(-1)>>

\* impl EquationOfState for VanDerWaals
VanDerWaalsParams(cs, w, t) ==
    AbParams(QDiv(QProd(<<QInt(27), R, R, cs.t, cs.t>>), QMul(QInt(64), cs.p)),
             QDiv(QMul(R, cs.t), QMul(QInt(8), cs.p)))

VanDerWaalsPressure(params, vm, t) ==
    QSub(QDiv(QMul(R, t), QSub(vm, params.b)), QDiv(params.a, QMul(vm, vm)))

\* A polynomial whose Z^2 coefficient is 1 - B in the place of -B - 1
VanDerWaalsZPolynSign(params, p, t) ==
    LET a == QDiv(QMul(params.a, p), QProd(<<R, R, t, t>>))
        b == QDiv(QMul(params.b, p), QMul(R, t))
    IN <<QOne, QSub(QOne, b), a, QMul(QNeg(a), b)>>

VanDerWaalsZPolyn(params, p, t) ==
    LET a == QDiv(QMul(params.a, p), QProd(<<R, R, t, t>>))
        b == QDiv(QMul(params.b, p), QMul(R, t))
    IN <<QOne, QSub(QNeg(b), QOne), a, QMul(QNeg(a), b)>>

\* impl EquationOfState for RedlichKwong
RedlichKwongParams(cs, w, t) ==
    AbParams(QDiv(QProd(<<QDec(<<4274, 8023>>, 8), R, R, QPow25(cs.t)>>), cs.p),
             QDiv(QProd(<<QDec(<<866, 4035>>, 8), R, cs.t>>), cs.p))

RedlichKwongPressure(params, vm, t) ==
    QSub(QDiv(QMul(R, t), QSub(vm, params.b)),
         QDiv(params.a, QProd(<<QSqrt(t), vm, QAdd(vm, params.b)>>)))

RedlichKwongZPolyn(params, p, t) ==
    LET a == QDiv(QMul(params.a, p), QProd(<<R, R, QPow25(t)>>))
        b == QDiv(QMul(params.b, p), QMul(R, t))
    IN <<QOne, QInt(-1), QSub(QSub(a, QMul(b, b)), b), QMul(QNeg(a), b)>>

\* The alpha function of the Soave family: (1 + m (1 - sqrt(t / Tc)))^2
Alpha(m, cs, t) ==
    LET sq_a == QAdd(QOne, QMul(m, QSub(QOne, QSqrt(QDiv(t, cs.t)))))
    IN QMul(sq_a, sq_a)

\* impl EquationOfState for SoaveRedlichKwong
\* Parameters whose b takes the correction alpha of a
SoaveRedlichKwongParamsAlphaB(cs, w, t) ==
    LET m == QSub(QAdd(QDec(<<48>>, 2), QMul(QDec(<<1574>>, 3), w)),
                  QProd(<<QDec(<<176>>, 3), w, w>>))
        alpha == Alpha(m, cs, t)
    IN AbParams(QDiv(QProd(<<alpha, QDec(<<4274, 8023>>, 8), R, R, cs.t, cs.t>>), cs.p),
                QDiv(QProd(<<alpha, QDec(<<866, 4035>>, 8), R, cs.t>>), cs.p))

SoaveRedlichKwongParams(cs, w, t) ==
    LET m == QSub(QAdd(QDec(<<48>>, 2), QMul(QDec(<<1574>>, 3), w)),
                  QProd(<<QDec(<<176>>, 3), w, w>>))
        alpha == Alpha(m, cs, t)
    IN AbParams(QDiv(QProd(<<alpha, QDec(<<4274, 8023>>, 8), R, R, cs.t, cs.t>>), cs.p),
                QDiv(QProd(<<QDec(<<866, 4035>>, 8), R, cs.t>>), cs.p))

SoaveRedlichKwongPressure(params, vm, t) ==
    QSub(QDiv(QMul(R, t), QSub(vm, params.b)),
         QDiv(params.a, QMul(vm, QAdd(vm, params.b))))

SoaveRedlichKwongZPolyn(params, p, t) ==
    LET a == QDiv(QMul(params.a, p), QProd(<<R, R, t, t>>))
        b == QDiv(QMul(params.b, p), QMul(R, t))
    IN <<QOne, QInt(-1), QSub(QSub(a, QMul(b, b)), b), QMul(QNeg(a), b)>>

\* impl EquationOfState for PengRobinson
\* A slope whose first polynomial stops short of w = 0.491 (w < 0.491)
PengRobinsonMExclusive(w) ==
    IF QLt(w, QDec(<<491>>, 3))
    THEN QSub(QAdd(QDec(<<3, 7464>>, 5), QMul(QDec(<<15, 6226>>, 5), w)),
              QProd(<<QDec(<<2, 6992>>, 5), w, w>>))
    ELSE QSub(QSub(QAdd(QDec(<<37, 9642>>, 6), QMul(QDec(<<148, 7503>>, 6), w)),
                   QProd(<<QDec(<<16, 4423>>, 6), w, w>>)),
              QProd(<<QDec(<<1, 6666>>, 6), w, w, w>>))

\* The slope m of PengRobinson::params (eos.rs 244-248)
PengRobinsonM(w) ==
    IF QLe(w, QDec(<<491>>, 3))
    THEN QSub(QAdd(QDec(<<3, 7464>>, 5), QMul(QDec(<<15, 6226>>, 5), w)),
              QProd(<<QDec(<<2, 6992>>, 5), w, w>>))
    ELSE QSub(QSub(QAdd(QDec(<<37, 9642>>, 6), QMul(QDec(<<148, 7503>>, 6), w)),
                   QProd(<<QDec(<<16, 4423>>, 6), w, w>>)),
              QProd(<<QDec(<<1, 6666>>, 6), w, w, w>>))

PengRobinsonParams(cs, w, t) ==
    LET m == PengRobinsonM(w)
        alpha == Alpha(m, cs, t)
    IN AbParams(QDiv(QProd(<<alpha, QDec(<<4572, 3552, 8921, 3821>>, 16),
                             R, R, cs.t, cs.t>>), cs.p),
                QDiv(QProd(<<QDec(<<7779, 6073, 9038, 8844>>, 17), R, cs.t>>), cs.p))

\* A pressure whose attraction term is over vm^2 + 2 b vm + b^2 in the
\* place of vm^2 + 2 b vm - b^2
PengRobinsonPressurePlus(params, vm, t) ==
    QSub(QDiv(QMul(R, t), QSub(vm, params.b)),
         QDiv(params.a,
              QAdd(QAdd(QMul(vm, vm), QProd(<<QInt(2), params.b, vm>>)),
                   QMul(params.b, params.b))))

PengRobinsonPressure(params, vm, t) ==
    QSub(QDiv(QMul(R, t), QSub(vm, params.b)),
         QDiv(params.a,
              QSub(QAdd(QMul(vm, vm), QProd(<<QInt(2), params.b, vm>>)),
                   QMul(params.b, params.b))))

PengRobinsonZPolyn(params, p, t) ==
    LET a == QDiv(QMul(params.a, p), QProd(<<R, R, t, t>>))
        b == QDiv(QMul(params.b, p), QMul(R, t))
    IN <<QOne,
         QSub(b, QOne),
         QAdd(QSub(QProd(<<QInt(-3), b, b>>), QMul(QInt(2), b)), a),
         QSub(QAdd(QProd(<<b, b, b>>), QMul(b, b)), QMul(a, b))>>

\* impl EquationOfState for PatelTejaValderrama
PatelTejaValderramaParams(cs, w, t) ==
    LET zc == PvtZ(cs)
        m == QAdd(QAdd(QDec(<<4, 6283>>, 5), QProd(<<QDec(<<35, 8230>>, 5), w, zc>>)),
                  QProd(<<QDec(<<81, 9417>>, 5), w, w, zc, zc>>))
        alpha == Alpha(m, cs, t)
        omega_a == QSub(QDec(<<6, 6121>>, 5), QMul(QDec(<<7, 6105>>, 5), zc))
        omega_b == QAdd(QDec(<<2207>>, 5), QMul(QDec(<<2, 0868>>, 5), zc))
        omega_c == QSub(QDec(<<5, 7765>>, 5), QMul(QDec(<<17, 8080>>, 5), zc))
    IN AbcParams(QDiv(QProd(<<alpha, omega_a, R, R, cs.t, cs.t>>), cs.p),
                 QDiv(QProd(<<omega_b, R, cs.t>>), cs.p),
                 QDiv(QProd(<<omega_c, R, cs.t>>), cs.p))

PatelTejaValderramaPressure(params, vm, t) ==
    QSub(QDiv(QMul(R, t), QSub(vm, params.b)),
         QDiv(params.a,
              QAdd(QMul(vm, QAdd(vm, params.b)), QMul(params.c, QSub(vm, params.b)))))

PatelTejaValderramaZPolyn(params, p, t) ==
    LET a == QDiv(QMul(params.a, p), QProd(<<R, R, t, t>>))
        b == QDiv(QMul(params.b, p), QMul(R, t))
        c == QDiv(QMul(params.c, p), QMul(R, t))
    IN <<QOne,
         QSub(c, QOne),
         QAdd(QSub(QSub(QSub(QProd(<<QInt(-2), b, c>>), QMul(b, b)), b), c), a),
         QSub(QAdd(QProd(<<b, b, c>>), QMul(b, c)), QMul(a, b))>>

\* The types that implement EquationOfState, by name
EosTypes ==
    {"IdealGas", "VanDerWaals", "RedlichKwong", "SoaveRedlichKwong",
     "PengRobinson", "PatelTejaValderrama"}

\* E::params, E::pressure and E::z_polyn for the type named E
EParams(E, cs, w, t) ==
    CASE E = "IdealGas" -> IdealGasParams(cs, w, t)
      [] E = "VanDerWaals" -> VanDerWaalsParams(cs, w, t)
      [] E = "RedlichKwong" -> RedlichKwongParams(cs, w, t)
      [] E = "SoaveRedlichKwong" -> SoaveRedlichKwongParams(cs, w, t)
      [] E = "PengRobinson" -> PengRobinsonParams(cs, w, t)
      [] E = "PatelTejaValderrama" -> PatelTejaValderramaParams(cs, w, t)

EPressure(E, params, vm, t) ==
    CASE E = "IdealGas" -> IdealGasPressure(params, vm, t)
      [] E = "VanDerWaals" -> VanDerWaalsPressure(params, vm, t)
      [] E = "RedlichKwong" -> RedlichKwongPressure(params, vm, t)
      [] E = "SoaveRedlichKwong" -> SoaveRedlichKwongPressure(params, vm, t)
      [] E = "PengRobinson" -> PengRobinsonPressure(params, vm, t)
      [] E = "PatelTejaValderrama" -> PatelTejaValderramaPressure(params, vm, t)

EZPolyn(E, params, p, t) ==
    CASE E = "IdealGas" -> IdealGasZPolyn(params, p, t)
      [] E = "VanDerWaals" -> VanDerWaalsZPolyn(params, p, t)
      [] E = "RedlichKwong" -> RedlichKwongZPolyn(params, p, t)
      [] E = "SoaveRedlichKwong" -> SoaveRedlichKwongZPolyn(params, p, t)
      [] E = "PengRobinson" -> PengRobinsonZPolyn(params, p, t)
      [] E = "PatelTejaValderrama" -> PatelTejaValderramaZPolyn(params, p, t)

\* E::Params, by name
ParamsType(E) ==
    IF E = "IdealGas" THEN "()"
    ELSE IF E = "PatelTejaValderrama" THEN "AbcParams" ELSE "AbParams"

\* ------------------------------------------------------------------ mixing rules
\* An inner loop that leaves the item of the outer loop out (pairs i # j only)
RECURSIVE MixInnerOffDiagonal(_, _, _, _)
MixInnerOffDiagonal(a, fi, pi, items) ==
    IF items = <<>> THEN a
    ELSE LET fj == Head(items)[1]
             pj == Head(items)[2]
         IN MixInnerOffDiagonal(
                IF Head(items) = <<fi, pi>> THEN a
                ELSE QAdd(a, QMul(QMul(fi, fj), QSqrt(QMul(pi.a, pj.a)))),
                fi, pi, Tail(items))

\* The inner loop of mix (eos.rs 58-61, 81-84) for the outer item (fi, pi):
\* a += fi * fj * (pi.a * pj.a).sqrt() for every item (fj, pj)
RECURSIVE MixInner(_, _, _, _)
MixInner(a, fi, pi, items) ==
    IF items = <<>> THEN a
    ELSE LET fj == Head(items)[1]
             pj == Head(items)[2]
         IN MixInner(QAdd(a, QMul(QMul(fi, fj), QSqrt(QMul(pi.a, pj.a)))),
                     fi, pi, Tail(items))

\* impl MixingRules for (): nothing to mix
MixUnit(items) == Unit

\* An outer loop whose inner loop starts at the item of the outer loop
\* (pairs j >= i only)
RECURSIVE MixAbLoopUpper(_, _, _)
MixAbLoopUpper(rest, items, acc) ==
    IF rest = <<>> THEN acc
    ELSE LET fi == Head(rest)[1]
             pi == Head(rest)[2]
         IN MixAbLoopUpper(Tail(rest), items,
                AbParams(MixInner(acc.a, fi, pi, rest),
                         QAdd(acc.b, QMul(fi, pi.b))))

\* impl MixingRules for AbParams: the outer loop over rest, items being the
\* whole iterator that the inner loop goes through again
RECURSIVE MixAbLoop(_, _, _)
MixAbLoop(rest, items, acc) ==
    IF rest = <<>> THEN acc
    ELSE LET fi == Head(rest)[1]
             pi == Head(rest)[2]
         IN MixAbLoop(Tail(rest), items,
                AbParams(MixInner(acc.a, fi, pi, items),
                         QAdd(acc.b, QMul(fi, pi.b))))

MixAb(items) == MixAbLoop(items, items, AbParams(QZero, QZero))

\* impl MixingRules for AbcParams
RECURSIVE MixAbcLoop(_, _, _)
MixAbcLoop(rest, items, acc) ==
    IF rest = <<>> THEN acc
    ELSE LET fi == Head(rest)[1]
             pi == Head(rest)[2]
         IN MixAbcLoop(Tail(rest), items,
                AbcParams(MixInner(acc.a, fi, pi, items),
                          QAdd(acc.b, QMul(fi, pi.b)),
                          QAdd(acc.c, QMul(fi, pi.c))))

MixAbc(items) == MixAbcLoop(items, items, AbcParams(QZero, QZero, QZero))

\* P::mix for the parameter set named type
PMix(type, items) ==
    CASE type = "()" -> MixUnit(items)
      [] type = "AbParams" -> MixAb(items)
      [] type = "AbcParams" -> MixAbc(items)

\* ------------------------------------------------------------------ State
\* State::eos_params of a Molecule and of a Mixture, through impl State for Gas
MoleculeParams(m, E, t) ==
    Call("params", <<E, CriticalState(m), AcentricFactor(m), t>>)

EosParams(gas, E, t) ==
    IF gas.kind = "Molecule"
    THEN MoleculeParams(gas.m, E, t)
    ELSE LET items == [i \in 1..Len(gas.comps) |->
                         <<QOfFrac(gas.comps[i][1]),
                           MoleculeParams(gas.comps[i][2], E, t)>>]
         IN Call("mix", <<ParamsType(E), items>>)

\* State::molar_mass
RECURSIVE MolarMassFold(_, _)
MolarMassFold(s, comps) ==
    IF comps = <<>> THEN s
    ELSE MolarMassFold(
            QAdd(s, QMul(QOfFrac(Head(comps)[1]),
                           QRat(Head(comps)[2].m[1], 10000000 * Head(comps)[2].m[2]))),
            Tail(comps))

MolarMass(gas) ==
    IF gas.kind = "Molecule" THEN QRat(gas.m.m[1], 10000000 * gas.m.m[2])
    ELSE MolarMassFold(QZero, gas.comps)

\* The values the model lets a root of the cubic solver take
RootValues == {QInt(-1), QZero, QOne, QInt(2)}

\* Roots<f64>: the roots in the order the solver gives them, none to three
AnyRoots == UNION {[1..n -> RootValues] : n \in 0..3}

\* The polynomial a3 (Z - r1)(Z - r2)(Z - r3), a3 # 0
SplitsInto(poly, r) ==
    /\ poly[1] # QZero
    /\ poly[2] = QNeg(QMul(poly[1], QAdd(QAdd(r[1], r[2]), r[3])))
    /\ poly[3] = QMul(poly[1], QAdd(QAdd(QMul(r[1], r[2]), QMul(r[1], r[3])),
                                    QMul(r[2], r[3])))
    /\ poly[4] = QNeg(QMul(poly[1], QProd(<<r[1], r[2], r[3]>>)))

\* The different values of an ascending sequence, ascending
RECURSIVE Unique(_)
Unique(s) ==
    IF Len(s) < 2 THEN s
    ELSE IF s[1] = s[2] THEN Unique(Tail(s)) ELSE <<s[1]>> \o Unique(Tail(s))

\* roots::find_roots_cubic(a3, a2, a1, a0), a function of the crate roots
\* whose source is not part of the repository: the set of answers it may
\* give.
\*  - a3 = 0 and a2 = 0, a1 # 0: the equation is linear and its one root
\*    -a0 / a1 is the answer.
\*  - a coefficient is NaN: no root, or roots that are NaN.
\*  - the cubic has its three real roots among RootValues: these roots in
\*    ascending order, a repeated root given once or as often as it occurs.
\*  - otherwise the roots are not among the values of the model, and the
\*    answer is any of AnyRoots.
FindRootsCubic(poly) ==
    IF \E i \in 1..4 : QIsNan(poly[i])
    THEN {<<>>, <<QNaN>>, <<QNaN, QNaN, QNaN>>}
    ELSE IF poly[1] = QZero /\ poly[2] = QZero /\ poly[3] # QZero
    THEN {<<QDiv(QNeg(poly[4]), poly[3])>>}
    ELSE LET split == {r \in [1..3 -> RootValues] :
                          /\ QLe(r[1], r[2]) /\ QLe(r[2], r[3])
                          /\ SplitsInto(poly, r)}
         IN IF split = {} THEN AnyRoots
            ELSE split \cup {Unique(r) : r \in split}

\* Option<f64>
Some(x) == [tag |-> "Some", v |-> x]

\* A selection that takes the first root the solver gives
FirstRoot(roots) ==
    IF Len(roots) = 0 THEN None ELSE Some(roots[1])

\* The match on the solver's answer (lib.rs 99-105)
LargestRoot(roots) ==
    CASE Len(roots) = 0 -> None
      [] Len(roots) = 1 -> Some(roots[1])
      [] Len(roots) = 2 -> Some(QMax(roots[1], roots[2]))
      [] Len(roots) = 3 -> Some(QMax(QMax(roots[1], roots[2]), roots[3]))

\* A filter that lets a root of 0 through (z >= 0.0)
IsNonNegative(z) == QLe(QZero, z)

\* The predicate of the filter (lib.rs 106)
IsPositive(z) == QLt(QZero, z)

\* The outcome of a call: a returned f64, parameter set or polynomial, or
\* the panic of Option::expect with its message
Value(x) == [tag |-> "Value", v |-> x]
Panic(msg) == [tag |-> "Panic", msg |-> msg]

\* State::z from the answer of the solver on (lib.rs 106-107)
\* Option::filter on the predicate of lib.rs 106, and Option::expect
Filter(o) == IF o # None /\ IsPositive(o.v) THEN o ELSE None
Expect(o, msg) == IF o = None THEN Panic(msg) ELSE Value(o.v)

ZFromRoots(roots) ==
    Expect(Filter(LargestRoot(roots)), "Should have a found a positive real root")

\* The polynomial State::z hands to the solver (lib.rs 96-97)
ZPolynOf(gas, E, p, t) ==
    LET params == EosParams(gas, E, t) IN
    Call("z_polyn", <<E, params, p, t>>)

\* StateEos::z_eos: the type each variant of Eos is matched to (lib.rs 177-184)
EosValues ==
    {"Eos::IdealGas", "Eos::VanDerWaals", "Eos::RedlichKwong",
     "Eos::SoaveRedlichKwong", "Eos::PengRobinson", "Eos::PatelTejaValderrama"}

ZEosType(eos) ==
    CASE eos = "Eos::IdealGas" -> "IdealGas"
      [] eos = "Eos::VanDerWaals" -> "VanDerWaals"
      [] eos = "Eos::RedlichKwong" -> "RedlichKwong"
      [] eos = "Eos::SoaveRedlichKwong" -> "SoaveRedlichKwong"
      [] eos = "Eos::PengRobinson" -> "PengRobinson"
      [] eos = "Eos::PatelTejaValderrama" -> "PatelTejaValderrama"

\* The derived quantities from the outcome zr of State::z (lib.rs 112-113,
\* 118-119, 130-131, 139-140, 145-146): the panic of z goes through them, a
\* returned z goes into their arithmetic.
MolarVolumeOf(zr, p, t) ==
    IF zr.tag = "Panic" THEN zr
    ELSE Value(QDiv(QMul(QMul(zr.v, R), t), p))

SpecificMassOf(molar_mass, zr, p, t) ==
    IF zr.tag = "Panic" THEN zr
    ELSE Value(QDiv(QMul(molar_mass, p), QMul(QMul(zr.v, R), t)))

\* An amount of substance that multiplies by t instead of dividing
\* (p * v / z / R * t)
MolsTimesT(zr, p, v, t) ==
    IF zr.tag = "Panic" THEN zr
    ELSE Value(QMul(QDiv(QDiv(QMul(p, v), zr.v), R), t))

MolsOf(zr, p, v, t) ==
    IF zr.tag = "Panic" THEN zr
    ELSE Value(QDiv(QDiv(QDiv(QMul(p, v), zr.v), R), t))

\* A volume that divides by t instead of multiplying (n * z * R / t / p)
VolumeOverT(zr, p, n, t) ==
    IF zr.tag = "Panic" THEN zr
    ELSE Value(QDiv(QDiv(QMul(QMul(n, zr.v), R), t), p))

VolumeOf(zr, p, n, t) ==
    IF zr.tag = "Panic" THEN zr
    ELSE Value(QDiv(QMul(QMul(QMul(n, zr.v), R), t), p))

MassOf(molar_mass, zr, p, v, t) ==
    LET n == MolsOf(zr, p, v, t) IN
    IF n.tag = "Panic" THEN n ELSE Value(QMul(molar_mass, n.v))

\* ------------------------------------------------------------------ State of src/src/lib.rs
\* The State trait of src/src/lib.rs keeps no parameter set: a gas answers
\* a::<E>(t), b::<E>() and c::<E>(), and the equation takes them one by one.
\* E::a(cs, w, t), E::b(cs) and E::c(cs): the a, b and c of E::params; b and
\* c do not depend on w and t, and are taken at w = 0 and t = cs.t.
EA(E, cs, w, t) == Call("params", <<E, cs, w, t>>).a
EB(E, cs) == Call("params", <<E, cs, QZero, cs.t>>).b
EC(E, cs) == Call("params", <<E, cs, QZero, cs.t>>).c

\* impl State for Molecule (src/src/lib.rs 200-217)
MoleculeA(m, E, t) == EA(E, CriticalState(m), AcentricFactor(m), t)
MoleculeB(m, E) == EB(E, CriticalState(m))
MoleculeC(m, E) == EC(E, CriticalState(m))

\* impl State for Mixture (src/src/lib.rs 223-246): a is the double loop over
\* the components, b and c are folds
RECURSIVE MixtureAInner(_, _, _, _, _, _)
MixtureAInner(res, fi, ai, rest, E, t) ==
    IF rest = <<>> THEN res
    ELSE MixtureAInner(
            QAdd(res, QMul(QMul(fi, QOfFrac(Head(rest)[1])),
                           QSqrt(QMul(ai, MoleculeA(Head(rest)[2], E, t))))),
            fi, ai, Tail(rest), E, t)

RECURSIVE MixtureAOuter(_, _, _, _, _)
MixtureAOuter(res, rest, comps, E, t) ==
    IF rest = <<>> THEN res
    ELSE MixtureAOuter(
            MixtureAInner(res, QOfFrac(Head(rest)[1]), MoleculeA(Head(rest)[2], E, t),
                          comps, E, t),
            Tail(rest), comps, E, t)

MixtureA(comps, E, t) == MixtureAOuter(QZero, comps, comps, E, t)

RECURSIVE MixtureB(_, _, _)
MixtureB(s, comps, E) ==
    IF comps = <<>> THEN s
    ELSE MixtureB(QAdd(s, QMul(QOfFrac(Head(comps)[1]), MoleculeB(Head(comps)[2], E))),
                  Tail(comps), E)

RECURSIVE MixtureC(_, _, _)
MixtureC(s, comps, E) ==
    IF comps = <<>> THEN s
    ELSE MixtureC(QAdd(s, QMul(QOfFrac(Head(comps)[1]), MoleculeC(Head(comps)[2], E))),
                  Tail(comps), E)

\* impl State for Gas (src/src/lib.rs 259-279)
StateA(gas, E, t) ==
    IF gas.kind = "Molecule" THEN MoleculeA(gas.m, E, t) ELSE MixtureA(gas.comps, E, t)

StateB(gas, E) ==
    IF gas.kind = "Molecule" THEN MoleculeB(gas.m, E) ELSE MixtureB(QZero, gas.comps, E)

StateC(gas, E) ==
    IF gas.kind = "Molecule" THEN MoleculeC(gas.m, E) ELSE MixtureC(QZero, gas.comps, E)

\* The a, b and c that State::pressure passes to E::pressure
\* (src/src/lib.rs 45-48)
PressureArgs(gas, E, t) == <<StateA(gas, E, t), StateB(gas, E), StateC(gas, E)>>

\* The a, b and c that State::z passes to E::z_polyn (src/src/lib.rs 64-67):
\* c is let to self.b::<E>()
ZArgs(gas, E, t) == <<StateA(gas, E, t), StateB(gas, E), StateB(gas, E)>>

\* E::z_polyn(a, b, c, p, t): the polynomial of E on the parameters a, b, c
ZPolynAbc(E, abc, p, t) ==
    Call("z_polyn", <<E, AbcParams(abc[1], abc[2], abc[3]), p, t>>)

\* State::z of src/src/lib.rs on the call c: every answer of the solver
\* with what the call returns on it
StateZAbc(c) ==
    UNION {{[roots |-> r, ret |-> Call("z", <<r>>)] :
                r \in Call("find_roots_cubic", <<polyn>>)} :
           polyn \in {ZPolynAbc(c.eos, abc, c.p, c.t) :
                         abc \in {ZArgs(c.gas, c.eos, c.t)}}}

\* The parameters a, b, c that a caller of E::z_polyn writes for the
\* reduced values A, B and C to be theirs at (p, t)
ParamsFor(E, A, B, C, p, t) ==
    LET a == IF E = "RedlichKwong"
             THEN QDiv(QProd(<<A, R, R, QPow25(t)>>), p)
             ELSE QDiv(QProd(<<A, R, R, t, t>>), p)
        b == QDiv(QProd(<<B, R, t>>), p)
        c == QDiv(QProd(<<C, R, t>>), p)
    IN CASE ParamsType(E) = "()" -> Unit
         [] ParamsType(E) = "AbParams" -> AbParams(a, b)
         [] ParamsType(E) = "AbcParams" -> AbcParams(a, b, c)

\* The outcomes of a call of op on c under the equation E: every answer
\* of the solver with what the call returns on it
StateCall(op, E, c) ==
    UNION {{[roots |-> r, ret |-> Call(op, <<r, c>>)] :
                r \in Call("find_roots_cubic", <<polyn>>)} :
           polyn \in {Call("z_polyn", <<E, params, c.p, c.t>>) :
                         params \in {Call("eos_params", <<c.gas, E, c.t>>)}}}

\* The molar volume z * R * t / p of a compression factor z
VolumeAt(z, p, t) == MolarVolumeOf(Value(z), p, t).v

\* ------------------------------------------------------------------ compounds
\* The component list of compounds::dry_air
DryAirComps ==
    << Factor(Frac(7808, 10000), GasMolecule(N2)),
       Factor(Frac(2095, 10000), GasMolecule(O2)),
       Factor(Frac(93, 10000), GasMolecule(AR)),
       Factor(Frac(4, 10000), GasMolecule(CO2)) >>

\* Result::unwrap on the result of Mixture::new
Unwrap(r) ==
    IF r.tag = "Ok" THEN Value(GasMixture(r.comps))
    ELSE Panic("called Result::unwrap() on an Err value")

\* compounds::dry_air
dry_air == Unwrap(MixtureNew(DryAirComps))

\* Some(x.into()) around a call that may panic
SomeOf(r) == IF r.tag = "Panic" THEN r ELSE Some(r.v)

\* compounds::lookup on the name as one string
lookup(name) ==
    CASE name = "dry_air" -> SomeOf(dry_air)
      [] name = "Ar" -> Some(GasMolecule(AR))
      [] name = "Br2" -> Some(GasMolecule(BR2))
      [] name = "Cl2" -> Some(GasMolecule(CL2))
      [] name = "F2" -> Some(GasMolecule(F2))
      [] name = "He" -> Some(GasMolecule(HE))
      [] name = "H2" -> Some(GasMolecule(H2))
      [] name = "I2" -> Some(GasMolecule(I2))
      [] name = "Kr" -> Some(GasMolecule(KR))
      [] name = "Ne" -> Some(GasMolecule(NE))
      [] name = "N2" -> Some(GasMolecule(N2))
      [] name = "O2" -> Some(GasMolecule(O2))
      [] name = "Xe" -> Some(GasMolecule(XE))
      [] name = "C2H2" -> Some(GasMolecule(C2H2))
      [] name = "C6H6" -> Some(GasMolecule(C6H6))
      [] name = "C4H10" -> Some(GasMolecule(C4H10))
      [] name = "C4H8" -> Some(GasMolecule(C4H8))
      [] name = "C6H12" -> Some(GasMolecule(C6H12))
      [] name = "C3H6" -> Some(GasMolecule(C3H6))
      [] name = "C2H6" -> Some(GasMolecule(C2H6))
      [] name = "C2H4" -> Some(GasMolecule(C2H4))
      [] name = "NH3" -> Some(GasMolecule(NH3))
      [] name = "CO2" -> Some(GasMolecule(CO2))
      [] name = "CO" -> Some(GasMolecule(CO))
      [] name = "NO" -> Some(GasMolecule(NO))
      [] name = "SO2" -> Some(GasMolecule(SO2))
      [] name = "SO3" -> Some(GasMolecule(SO3))
      [] name = "H2O" -> Some(GasMolecule(H2O))
      [] name = "CH3COOH" -> Some(GasMolecule(CH3COOH))
      [] name = "C3H6O" -> Some(GasMolecule(C3H6O))
      [] name = "C2H5OH" -> Some(GasMolecule(C2H5OH))
      [] name = "CH3OH" -> Some(GasMolecule(CH3OH))
      [] name = "CH3CL" -> Some(GasMolecule(CH3CL))
      [] OTHER -> None

\* ------------------------------------------------------------------ strings
\* A &str is held as the sequence of its characters, each a string of
\* length one. Str is the text as one string.
RECURSIVE Str(_)
Str(s) == IF s = <<>> THEN "" ELSE Head(s) \o Str(Tail(s))

\* str::split on a separator of one character: the fields between the
\* separators, one more than there are separators
RECURSIVE SplitFrom(_, _, _, _)
SplitFrom(fields, field, rest, sep) ==
    IF rest = <<>> THEN Append(fields, field)
    ELSE IF Head(rest) = sep THEN SplitFrom(Append(fields, field), <<>>, Tail(rest), sep)
    ELSE SplitFrom(fields, Append(field, Head(rest)), Tail(rest), sep)

Split(s, sep) == SplitFrom(<<>>, <<>>, s, sep)

IsDigit(c) == c \in {"0", "1", "2", "3", "4", "5", "6", "7", "8", "9"}

DigitOf(c) ==
    CASE c = "0" -> 0 [] c = "1" -> 1 [] c = "2" -> 2 [] c = "3" -> 3 [] c = "4" -> 4
      [] c = "5" -> 5 [] c = "6" -> 6 [] c = "7" -> 7 [] c = "8" -> 8 [] c = "9" -> 9

\* The number written by the decimal digits ds after the digits of acc
RECURSIVE DigitsValue(_, _)
DigitsValue(acc, ds) ==
    IF ds = <<>> THEN acc ELSE DigitsValue(10 * acc + DigitOf(Head(ds)), Tail(ds))

RECURSIVE Pow10(_)
Pow10(n) == IF n = 0 THEN 1 ELSE 10 * Pow10(n - 1)

\* The letters of "nan", "inf" and "infinity" are read in either case
AsciiLower(c) ==
    CASE c = "N" -> "n" [] c = "A" -> "a" [] c = "I" -> "i" [] c = "F" -> "f"
      [] c = "T" -> "t" [] c = "Y" -> "y" [] OTHER -> c

Lower(s) == [i \in 1..Len(s) |-> AsciiLower(s[i])]

\* An f64 as str::parse gives it: not a number, an infinity, or the decimal
\* number -n / 10^scale or n / 10^scale
F64Nan == [kind |-> "nan"]
F64Inf(neg) == [kind |-> "inf", neg |-> neg]
F64Finite(neg, n, scale) == [kind |-> "finite", neg |-> neg, n |-> n, scale |-> scale]

\* Result<f64, ParseFloatError>
OkF64(x) == [tag |-> "Ok", v |-> x]
ParseFloatError(kind) == [tag |-> "Err", err |-> "Float", kind |-> kind]

\* The digits and the point of a decimal number without a sign: at most one
\* point and at least one digit
IsDecimal(body) ==
    /\ \A i \in 1..Len(body) : IsDigit(body[i]) \/ body[i] = "."
    /\ Len(Split(body, ".")) <= 2
    /\ \E i \in 1..Len(body) : IsDigit(body[i])

\* The decimal number written by body, a decimal number without a sign
DecimalOf(neg, parts) ==
    IF Len(parts) = 1 THEN F64Finite(neg, DigitsValue(0, parts[1]), 0)
    ELSE F64Finite(neg, DigitsValue(DigitsValue(0, parts[1]), parts[2]), Len(parts[2]))

\* The text after the sign of a number
Unsigned(s) == IF Head(s) \in {"-", "+"} THEN Tail(s) ELSE s

\* str::parse::<f64> on a text without an exponent part
ParseF64(s) ==
    IF s = <<>> THEN ParseFloatError("Empty")
    ELSE IF Lower(Unsigned(s)) = <<"n", "a", "n">> THEN OkF64(F64Nan)
    ELSE IF Lower(Unsigned(s)) \in {<<"i", "n", "f">>, <<"i", "n", "f", "i", "n", "i", "t", "y">>}
         THEN OkF64(F64Inf(Head(s) = "-"))
    ELSE IF ~IsDecimal(Unsigned(s)) THEN ParseFloatError("Invalid")
    ELSE OkF64(DecimalOf(Head(s) = "-", Split(Unsigned(s), ".")))

\* An f64 in the numbers of the mixture builder, which have no infinity
F64Frac(x) ==
    CASE x.kind = "nan" -> NaN
      [] x.kind = "finite" -> Frac(IF x.neg THEN -x.n ELSE x.n, Pow10(x.scale))

\* ------------------------------------------------------------------ Gas::from_str
\* Result<Gas, GasParseError>
OkGas(g) == [tag |-> "Ok", gas |-> g]
UnknownMolecule(symbol) == [tag |-> "Err", err |-> "UnknownMolecule", symbol |-> symbol]
GasParseErrorMixture(e) == [tag |-> "Err", err |-> "Mixture", mixture |-> e]
GasParseErrorFloat(e) == [tag |-> "Err", err |-> "Float", float |-> e]
GasParseErrorOther(msg) == [tag |-> "Err", err |-> "Other", msg |-> msg]

\* frac
PercentAsFraction(frac) == frac

\* frac / 100.0
Percent(frac) == IF IsNan(frac) THEN NaN ELSE FDivInt(frac, 100)

\* Option::expect on the result of lookup
OkOrExpect(found, symbol) ==
    IF found = None THEN Panic("Can't lookup " \o Str(symbol))
    ELSE IF found.tag = "Panic" THEN found
    ELSE OkGas(found.v)

\* Option::ok_or_else(|| UnknownMolecule(symbol)) on the result of lookup
OkOrUnknown(found, symbol) ==
    IF found = None THEN UnknownMolecule(Str(symbol))
    ELSE IF found.tag = "Panic" THEN found
    ELSE OkGas(found.v)

\* format!("Can't parse {sc} as a compound fraction")
CantParseHead(sc) == "Can't parse " \o sc
CantParse(sc) == CantParseHead(sc) \o " as a compound fraction"

\* The component of one item of a list (gas.rs 236-250): a Comp, or the
\* error or panic the item ends the parse with
CompOf(sc, sfrac, g) ==
    IF Len(sfrac) > 2
    THEN GasParseErrorOther(CantParse(Str(sc)))
    ELSE IF g.tag # "Ok" THEN g
    ELSE IF Len(sfrac) = 1 THEN Remainder(g.gas)
    ELSE IF ParseF64(sfrac[1]).tag = "Err" THEN GasParseErrorFloat(ParseF64(sfrac[1]).kind)
    ELSE Factor(Percent(F64Frac(ParseF64(sfrac[1]).v)), g.gas)

\* The loop over the items of a list (gas.rs 235-251): the components
\* pushed to mcomps, or what the first failing item gives
RECURSIVE ParseComps(_, _)
ParseComps(mcomps, scomps) ==
    IF scomps = <<>> THEN [tag |-> "Comps", mcomps |-> mcomps]
    ELSE LET sfrac == Split(Head(scomps), "%")
             c == CompOf(Head(scomps), sfrac,
                         OkOrUnknown(lookup(Str(sfrac[Len(sfrac)])), sfrac[Len(sfrac)]))
         IN  IF "tag" \in DOMAIN c THEN c
             ELSE ParseComps(Append(mcomps, c), Tail(scomps))

\* Ok(Gas::Mixture(Mixture::new(mcomps)?))
MixtureOf(st) ==
    IF st.tag # "Comps" THEN st
    ELSE IF MixtureNew(st.mcomps).tag = "Err"
    THEN GasParseErrorMixture(MixtureNew(st.mcomps))
    ELSE OkGas(GasMixture(MixtureNew(st.mcomps).comps))

\* impl FromStr for Gas
GasFromStr(s) ==
    IF Split(s, "+") = <<>> THEN GasParseErrorMixture(MixtureNotWhole)
    ELSE IF Len(Split(s, "+")) = 1 THEN OkOrUnknown(lookup(Str(s)), s)
    ELSE MixtureOf(ParseComps(<<>>, Split(s, "+")))

\* ------------------------------------------------------------------ src/bin/main.rs
\* The functions of this part are called by name as well: CallRun("run", x)
\* is run on the arguments x of the command, and every other name is a name
\* of Call. The arithmetic of f64 in main.rs:
RECURSIVE CallRun(_, _)
MulF64(x, y) == CallRun("f64::mul", <<x, y>>)
DivF64(x, y) == CallRun("f64::div", <<x, y>>)
AddF64(x, y) == CallRun("f64::add", <<x, y>>)
SubF64(x, y) == AddF64(x, QNeg(y))
CmpF64(x, y) == CallRun("f64::partial_cmp", <<x, y>>)
LtF64(x, y) == ~QIsNan(x) /\ ~QIsNan(y) /\ CmpF64(x, y) < 0
LeF64(x, y) == ~QIsNan(x) /\ ~QIsNan(y) /\ CmpF64(x, y) <= 0

\* An f64 of str::parse in the numbers of the state equations
F64Q(x) ==
    CASE x.kind = "nan" -> QNaN
      [] x.kind = "inf" -> QInf(IF x.neg THEN -1 ELSE 1)
      [] x.kind = "finite" -> QRat(IF x.neg THEN -x.n ELSE x.n, Pow10(x.scale))

\* enum Var
Scalar(v) == [var |-> "Scalar", v |-> v]
Range(start, end, step) == [var |-> "Range", start |-> start, end |-> end, step |-> step]

\* Result<Var, ParseVarError>
OkVar(x) == [tag |-> "Ok", var |-> x]
ParseVarErrorEmpty == [tag |-> "Err", err |-> "Empty"]
ParseVarErrorFloat(kind) == [tag |-> "Err", err |-> "Float", float |-> kind]
ParseVarErrorRange(msg) == [tag |-> "Err", err |-> "Range", msg |-> msg]

\* format!("Can't parse \"{}\" as a range", s)
CantParseRangeHead(s) == "Can't parse \"" \o s
CantParseRange(s) == CantParseRangeHead(s) \o "\" as a range"

\* The loop over the fields of the text (main.rs 162-165): the numbers
\* pushed to v, or the error of the first field that is not a number
RECURSIVE ParseFields(_, _)
ParseFields(v, fields) ==
    IF fields = <<>> THEN [tag |-> "Numbers", v |-> v]
    ELSE IF ParseF64(Head(fields)).tag = "Err"
    THEN ParseVarErrorFloat(ParseF64(Head(fields)).kind)
    ELSE ParseFields(Append(v, F64Q(ParseF64(Head(fields)).v)), Tail(fields))

\* The match on the number of fields (main.rs 169-211)
VarOf(s, v) ==
    CASE Len(v) = 1 -> OkVar(Scalar(v[1]))
      [] Len(v) = 2 ->
            IF LeF64(v[2], v[1])
            THEN ParseVarErrorRange("Range end must be higher than start")
            ELSE OkVar(Range(v[1], v[2], None))
      [] Len(v) = 3 ->
            IF LeF64(v[2], v[1])
            THEN ParseVarErrorRange("Range stop must be higher than start")
            ELSE IF LeF64(v[3], QZero)
            THEN ParseVarErrorRange("Range step must be positive")
            ELSE OkVar(Range(v[1], v[2], Some(v[3])))
      [] OTHER -> ParseVarErrorRange(CantParseRange(Str(s)))

\* The fields of a text that is not empty, then the match
VarOfFields(s, st) == IF st.tag = "Err" THEN st ELSE VarOf(s, st.v)

\* impl FromStr for Var
VarFromStr(s) ==
    IF s = <<>> THEN ParseVarErrorEmpty
    ELSE VarOfFields(s, ParseFields(<<>>, Split(s, ":")))

\* f64::EPSILON, 2^-52
EPSILON == MulF64(QRat(1, 67108864), QRat(1, 67108864))

\* usize::MAX, 2^64 - 1, and isize::MAX, 2^63 - 1, for a usize of 64 bits
TwoTo32 == MulF64(QRat(65536, 1), QRat(65536, 1))
USIZE_MAX == SubF64(MulF64(TwoTo32, TwoTo32), QOne)
ISIZE_MAX == SubF64(MulF64(MulF64(TwoTo32, TwoTo32), QRat(1, 2)), QOne)

\* The whole part of a positive number
WholeOf(q) == IF q = <<>> THEN QZero ELSE <<1, q, <<1>>>>
Trunc(x) == WholeOf(CallRun("divmod", <<x[2], x[3]>>).q)

\* x as usize: NaN and the numbers below zero are 0, the numbers above
\* usize::MAX are usize::MAX
AsUsize(x) ==
    IF QIsNan(x) \/ LeF64(x, QZero) THEN QZero
    ELSE IF LeF64(USIZE_MAX, x) THEN USIZE_MAX
    ELSE Trunc(x)

\* Vec::<f64>::with_capacity(cap) panics when cap * 8 bytes are more than
\* isize::MAX
CapacityOverflow(cap) == LtF64(ISIZE_MAX, MulF64(cap, QInt(8)))

\* The loop of Var::to_vec (main.rs 118-121)
RECURSIVE ToVecLoop(_, _, _, _)
ToVecLoop(res, v, end, step) ==
    IF LeF64(v, AddF64(end, MulF64(QInt(2), EPSILON)))
    THEN ToVecLoop(Append(res, v), AddF64(v, step), end, step)
    ELSE res

\* step.unwrap_or(1.0)
UnwrapOr(step, default) == IF step = None THEN default ELSE step.v

\* The Range arm of Var::to_vec (main.rs 113-123)
RangeToVec(start, end, step) ==
    IF CapacityOverflow(AsUsize(DivF64(SubF64(end, start), step)))
    THEN Panic("capacity overflow")
    ELSE Value(ToVecLoop(<<>>, start, end, step))

\* Var::to_vec
ToVec(x) ==
    IF x.var = "Scalar" THEN Value(<<x.v>>)
    ELSE RangeToVec(x.start, x.end, UnwrapOr(x.step, QOne))

\* Eos::from_str: the default value of the option, "PR", is Peng-Robinson;
\* a text that names no equation is an error
EosFromStr(s) ==
    IF Str(s) = "PR" THEN [tag |-> "Ok", eos |-> "PengRobinson"]
    ELSE [tag |-> "Err", err |-> "Eos"]

\* The calls of z_eos of one row of the table (main.rs 86-90): one for
\* each pressure, at p * 1e5 and the temperature of the row
RowCalls(p, t) == [i \in 1..Len(p) |-> <<MulF64(p[i], QRat(100000, 1)), t>>]

\* The calls of z_eos of the rows (main.rs 83-92), at t + 273.15
RECURSIVE TableCalls(_, _, _)
TableCalls(calls, p, t) ==
    IF t = <<>> THEN calls
    ELSE TableCalls(calls \o RowCalls(p, AddF64(Head(t), QRat(27315, 100))), p, Tail(t))

\* What run does: the lists of to_vec when it calls it, the calls of z_eos
\* it makes when none of them panics, and how it ends then, with the kind
\* of the error or the message
Exit(exit, err, p, t, calls) ==
    [exit |-> exit, err |-> err, p |-> p, t |-> t, calls |-> calls]

NotCalled == [tag |-> "NotCalled"]

\* The arm of run for a range (main.rs 67-93), from the check of the first
\* temperature
RunTable(p, t) ==
    IF t.v = <<>> THEN Exit("Panic", "Should have at least one temperature", p, t, <<>>)
    ELSE IF LtF64(t.v[1], QRat(-27315, 100))
    THEN Exit("Err", "Temperature below zero K !", p, t, <<>>)
    ELSE Exit("Ok", "", p, t, TableCalls(<<>>, p.v, t.v))

\* The arm of run for a range, from the calls of to_vec
RunRange(p, t) ==
    IF p.tag = "Panic" THEN Exit("Panic", p.msg, p, NotCalled, <<>>)
    ELSE IF t.tag = "Panic" THEN Exit("Panic", t.msg, p, t, <<>>)
    ELSE RunTable(p, t)

\* The match of run on the two variables (main.rs 61-94)
RunMatch(pressure, temperature) ==
    IF pressure.var = "Scalar" /\ temperature.var = "Scalar"
    THEN Exit("Ok", "", NotCalled, NotCalled,
              << <<MulF64(pressure.v, QRat(100000, 1)), temperature.v>> >>)
    ELSE RunRange(ToVec(pressure), ToVec(temperature))

\* The four calls of parse of run (main.rs 57-60), each returning its
\* error from run
RunParsed(gas, eos, pressure, temperature) ==
    IF gas.tag = "Panic" THEN Exit("Panic", gas.msg, NotCalled, NotCalled, <<>>)
    ELSE IF gas.tag = "Err" THEN Exit("Err", gas.err, NotCalled, NotCalled, <<>>)
    ELSE IF eos.tag = "Err" THEN Exit("Err", eos.err, NotCalled, NotCalled, <<>>)
    ELSE IF pressure.tag = "Err" THEN Exit("Err", pressure.err, NotCalled, NotCalled, <<>>)
    ELSE IF temperature.tag = "Err" THEN Exit("Err", temperature.err, NotCalled, NotCalled, <<>>)
    ELSE RunMatch(pressure.var, temperature.var)

\* run on the arguments of the command Z
RunOf(a) ==
    RunParsed(GasFromStr(a.gas), EosFromStr(a.eos), VarFromStr(a.pressure),
              VarFromStr(a.temperature))

\* run when its n-th call of z_eos panics: the calls up to it are made
PanicsAt(x, n) ==
    [x EXCEPT !.exit = "Panic", !.err = "Should have a found a positive real root",
              !.calls = SubSeq(x.calls, 1, n)]

\* The ways run can end: as RunOf says, or at a call of z_eos that panics
RunExits(x) == {x} \cup {PanicsAt(x, n) : n \in 1..Len(x.calls)}

CallRun(f, x) ==
    CASE f = "run" -> RunExits(RunOf(x[1]))
      [] OTHER -> Call(f, x)

\* ------------------------------------------------------------------ calls
\* The value of the function named f on the arguments x. The first names are
\* those of the arithmetic. "eos_params" is State::eos_params on (gas, E, t)
\* and "find_roots_cubic" the answers of the solver on a polynomial; the
\* functions of State and ExtensiveState take an answer of the solver and
\* the call, and the functions of an equation of state E and of the mixing
\* rules P their own arguments.
Call(f, x) ==
    CASE Len(x) = 0 -> GasConstant
      [] f = "mul" -> MulDigits(x[1], x[2])
      [] f = "divmod" -> LongDivision(x[1], x[2])
      [] f = "gcd" -> Euclid(x[1], x[2])
      [] f = "isqrt" -> Newton(x[1])
      [] f = "f64" -> Decimal(x[1], x[2])
      [] f = "f64::mul" -> Product(x[1], x[2])
      [] f = "f64::div" -> Quotient(x[1], x[2])
      [] f = "f64::add" -> Sum(x[1], x[2])
      [] f = "f64::partial_cmp" -> SignOfDifference(x[1], x[2])
      [] f = "f64::sqrt" -> SquareRoot(x[1])
      [] f = "eos_params" -> EosParams(x[1], x[2], x[3])
      [] f = "find_roots_cubic" -> FindRootsCubic(x[1])
      [] f = "z" -> ZFromRoots(x[1])
      [] f = "molar_volume" -> MolarVolumeOf(Call("z", <<x[1]>>), x[2].p, x[2].t)
      [] f = "specific_mass" ->
            SpecificMassOf(MolarMass(x[2].gas), Call("z", <<x[1]>>), x[2].p, x[2].t)
      [] f = "mols" -> MolsOf(Call("z", <<x[1]>>), x[2].p, x[2].v, x[2].t)
      [] f = "volume" -> VolumeOf(Call("z", <<x[1]>>), x[2].p, x[2].n, x[2].t)
      [] f = "mass" ->
            MassOf(MolarMass(x[2].gas), Call("z", <<x[1]>>), x[2].p, x[2].v, x[2].t)
      [] f = "params" -> EParams(x[1], x[2], x[3], x[4])
      [] f = "pressure" -> EPressure(x[1], x[2], x[3], x[4])
      [] f = "z_polyn" -> EZPolyn(x[1], x[2], x[3], x[4])
      [] f = "mix" -> PMix(x[1], x[2])
      [] f = "State" -> StateCall(x[1], x[2], x[3])
      [] f = "z(a, b, c)" -> StateZAbc(x[1])
      [] f = "caller" -> ParamsFor(x[1], x[2], x[3], x[4], x[5], x[6])
      [] f = "vm" -> VolumeAt(x[1], x[2], x[3])

\* ------------------------------------------------------------------ callers of the state equations
\* Two caller-defined Molecules whose critical temperatures, 36 K and 576 K,
\* have exact square roots and whose acentric factors are 0.491 and 0.644;
\* they share the critical pressure and the critical compression factor.
LIGHT == Molecule(20000, 4000000, 650, 360, 491)
HEAVY == Molecule(460000, 4000000, 10400, 5760, 644)

\* The Mixture of one third LIGHT and HEAVY for the rest
LIGHT_HEAVY ==
    GasMixture(MixtureNew(<<Factor(Frac(1, 3), GasMolecule(LIGHT)),
                             Remainder(GasMolecule(HEAVY))>>).comps)

\* The Mixture whose only component is LIGHT
ONLY_LIGHT == GasMixture(MixtureNew(<<Remainder(GasMolecule(LIGHT))>>).comps)

EosGases == {GasMolecule(O2), GasMolecule(LIGHT), GasMolecule(HEAVY), LIGHT_HEAVY}

\* The temperatures a gas is asked at: temperatures whose ratio to the
\* critical temperatures of the gas has an exact square root. O2 is asked
\* at four times its critical temperature (618.4 K), the others at 144 K.
Temps == {QRat(6184, 10), QInt(144)}
TempsOf(gas) == IF gas = GasMolecule(O2) THEN {QRat(6184, 10)} ELSE {QInt(144)}

\* RedlichKwong raises the critical temperature to the power 2.5, which is
\* exact for the caller-defined molecules only.
TypesOf(gas) == IF gas = GasMolecule(O2) THEN EosTypes \ {"RedlichKwong"} ELSE EosTypes

Atmosphere == QRat(101325, 1)

\* Calls of State::z: every gas under every equation at no pressure and at
\* one atmosphere, and two calls with a temperature that is NaN
ZCalls ==
    {c \in [op : {"z"}, gas : EosGases, eos : EosTypes,
            p : {QZero, Atmosphere}, t : Temps] :
        c.eos \in TypesOf(c.gas) /\ c.t \in TempsOf(c.gas)}
    \cup {[op |-> "z", gas |-> GasMolecule(O2), eos |-> E,
           p |-> Atmosphere, t |-> QNaN] : E \in {"IdealGas", "VanDerWaals"}}

\* Calls of State::z on ONLY_LIGHT, at no pressure
OnlyCalls ==
    [op : {"z"}, gas : {ONLY_LIGHT}, eos : EosTypes, p : {QZero}, t : {QInt(144)}]

\* Calls of State::z of src/src/lib.rs under the equation of three
\* parameters
AbcCalls ==
    [op : {"z(a, b, c)"}, gas : {GasMolecule(LIGHT), LIGHT_HEAVY},
     eos : {"PatelTejaValderrama"}, p : {Atmosphere}, t : {QInt(144)}]

\* Calls of StateEos::z_eos on O2
ZEosCalls ==
    {c \in [op : {"z_eos"}, gas : {GasMolecule(O2)}, eos : EosValues,
            p : {QZero, Atmosphere}, t : Temps] :
        ZEosType(c.eos) \in TypesOf(c.gas) /\ c.t \in TempsOf(c.gas)}

\* Calls of the derived quantities, under the default equation of the
\* library, on one litre or on two mols
DerivedGases == {GasMolecule(O2), LIGHT_HEAVY}

DerivedCalls ==
    {c \in [op : {"molar_volume", "specific_mass"}, gas : DerivedGases,
            eos : {"PengRobinson"}, p : {Atmosphere}, t : Temps] :
        c.t \in TempsOf(c.gas)}
    \cup {c \in [op : {"mols", "mass"}, gas : DerivedGases,
                 eos : {"PengRobinson"}, p : {Atmosphere}, v : {QRat(1, 1000)},
                 t : Temps] :
            c.t \in TempsOf(c.gas)}
    \cup {c \in [op : {"volume"}, gas : DerivedGases,
                 eos : {"PengRobinson"}, p : {Atmosphere}, n : {QInt(2)},
                 t : Temps] :
            c.t \in TempsOf(c.gas)}

DerivedEosCalls ==
    [op : {"molar_volume_eos", "specific_mass_eos"}, gas : {GasMolecule(O2)},
     eos : {"Eos::PengRobinson"}, p : {Atmosphere}, t : {QRat(6184, 10)}]
    \cup [op : {"mols_eos", "mass_eos"}, gas : {GasMolecule(O2)},
          eos : {"Eos::PengRobinson"}, p : {Atmosphere}, v : {QRat(1, 1000)},
          t : {QRat(6184, 10)}]
    \cup [op : {"volume_eos"}, gas : {GasMolecule(O2)},
          eos : {"Eos::PengRobinson"}, p : {Atmosphere}, n : {QInt(2)},
          t : {QRat(6184, 10)}]

\* Calls of E::z_polyn on parameters written by the caller, who fixes the
\* reduced values A, B and C that the polynomial is made of
ReducedA == {QRat(1, 2), QOne, QRat(3, 2), QInt(3), QInt(10)}
ReducedB == {QRat(1, 3), QRat(1, 2), QRat(3, 2), QInt(3)}
ReducedC == {QInt(6)}

ZPolynCalls ==
    {[op |-> "z_polyn", eos |-> E, params |-> Call("caller", <<E, A, B, C, p, t>>),
      p |-> p, t |-> t] :
        E \in EosTypes, A \in ReducedA, B \in ReducedB, C \in ReducedC,
        p \in {Atmosphere}, t \in {QInt(100)}}

\* The compression factors at which the caller asks the pressure back
ZValues == {QRat(1, 2), QOne, QInt(2)}

\* Calls of P::mix on weighted parameters written by the caller, at most
\* MaxMix of them
MaxMix == 2

Weights == {QRat(1, 3), QRat(1, 2)}

AbItems == {<<f, AbParams(a, b)>> : f \in Weights, a \in {QZero, QOne, QInt(4)},
                                    b \in {QOne, QInt(2)}}

AbcItems == {<<f, AbcParams(a, QOne, c)>> : f \in Weights, a \in {QOne, QInt(4)},
                                            c \in {QZero, QInt(3)}}

UnitItems == {<<f, Unit>> : f \in Weights}

SeqsUpTo(S, n) == UNION {[1..k -> S] : k \in 0..n}

MixCalls ==
    {[op |-> "mix", type |-> "()", items |-> s] : s \in SeqsUpTo(UnitItems, MaxMix)}
    \cup {[op |-> "mix", type |-> "AbParams", items |-> s] : s \in SeqsUpTo(AbItems, MaxMix)}
    \cup {[op |-> "mix", type |-> "AbcParams", items |-> s] : s \in SeqsUpTo(AbcItems, MaxMix)}

\* Calls of State::molar_mass on a Mixture of at most MaxMix components
MassComps == {<<f, m>> : f \in {Frac(1, 3), Frac(1, 2)}, m \in {LIGHT, HEAVY}}

MolarMassCalls ==
    {[op |-> "molar_mass", gas |-> GasMixture(s)] : s \in SeqsUpTo(MassComps, MaxMix)}

\* Calls of E::params under every equation: the critical state of O2 or of
\* LIGHT with acentric factors on both sides of 0.491 and 0.491 itself, at
\* the critical temperature and at four times the critical temperature
AcentricFactors ==
    {QRat(25, 1000), QRat(490, 1000), QRat(491, 1000), QRat(492, 1000), QRat(644, 1000)}

ParamsCalls ==
    UNION {{[op |-> "params", eos |-> E, cs |-> CriticalState(m), w |-> w,
             t |-> QMul(QInt(k), CriticalState(m).t)] :
                E \in TypesOf(GasMolecule(m)), w \in AcentricFactors, k \in {1, 4}} :
           m \in {O2, LIGHT}}

EosCalls ==
    ZCalls \cup OnlyCalls \cup AbcCalls \cup ZEosCalls \cup DerivedCalls \cup DerivedEosCalls
        \cup ZPolynCalls \cup MixCalls \cup ParamsCalls \cup MolarMassCalls

VARIABLES
    comps,      \* the component list of the last call of Mixture::new
    result,     \* its result, Pending before the call
    prev,       \* the call this one was derived from, or NoCall
    rel,        \* how this call was derived from prev
    call,       \* the call of a state equation: its name and arguments
    roots,      \* the answer of the cubic solver during the call
    ret,        \* the outcome of the call, Pending before it
    cli,        \* the run of the command-line tool: its arguments, then its exit
    par         \* a gas and the callers that share it, each with its locals

vars == <<comps, result, prev, rel, call, roots, ret, cli, par>>

\* The part of the state that belongs to the state equations
eosvars == <<call, roots, ret>>

Init ==
    /\ comps \in Inputs
    /\ result = Pending
    /\ prev = NoCall
    /\ rel = "none"
    /\ call = NoCall
    /\ roots = Pending
    /\ ret = Pending
    /\ cli = NoRun
    /\ par = NoCall

\* Mixture::new(comps)
New ==
    /\ result = Pending
    /\ result' = MixtureNew(comps)
    /\ UNCHANGED <<comps, prev, rel, eosvars, cli, par>>

\* Mixture::new on a list that uses the Mixture just built as a gas
NewNested ==
    /\ result.tag = "Ok"
    /\ prev = NoCall
    /\ IsFlat(comps)
    /\ \E cs \in NestedInputs(GasMixture(result.comps)) :
          /\ comps' = cs
          /\ result' = MixtureNew(cs)
    /\ UNCHANGED <<prev, rel, eosvars, cli, par>>

\* Mixture::new on the same components in another order
NewPermuted ==
    /\ result # Pending
    /\ prev = NoCall
    /\ \E i \in 1..(Len(comps) - 1) :
          LET cs == Swap(comps, i, i + 1) IN
          /\ cs # comps
          /\ comps' = cs
          /\ result' = MixtureNew(cs)
    /\ prev' = [comps |-> comps, result |-> result]
    /\ rel' = "permuted"
    /\ UNCHANGED <<eosvars, cli, par>>

\* Mixture::new on the same composition with one Factor(f, molecule) given
\* as two entries of f/2 each, the second one at the end of the list
NewSplit ==
    /\ result.tag = "Ok"
    /\ prev = NoCall
    /\ \E i \in 1..Len(comps) :
          /\ comps[i].kind = "Factor"
          /\ comps[i].g.kind = "Molecule"
          /\ LET half == Factor(FDivInt(comps[i].f, 2), comps[i].g)
                 cs == Append([comps EXCEPT ![i] = half], half)
             IN /\ comps' = cs
                /\ result' = MixtureNew(cs)
    /\ prev' = [comps |-> comps, result |-> result]
    /\ rel' = "split"
    /\ UNCHANGED <<eosvars, cli, par>>

\* Mixture::new on the list with one nested mixture written out as flat
\* Factor components in its place
NewFlattened ==
    /\ result.tag = "Ok"
    /\ prev = NoCall
    /\ \E i \in 1..Len(comps) :
          /\ comps[i].g.kind = "Mixture"
          /\ LET cs == SubSeq(comps, 1, i - 1) \o FlatComps(comps, comps[i])
                        \o SubSeq(comps, i + 1, Len(comps))
             IN /\ comps' = cs
                /\ result' = MixtureNew(cs)
    /\ prev' = [comps |-> comps, result |-> result]
    /\ rel' = "flattened"
    /\ UNCHANGED <<eosvars, cli, par>>

Next ==
    \/ New
    \/ NewNested
    \/ NewPermuted
    \/ NewSplit
    \/ NewFlattened

Spec == Init /\ [][Next]_vars

\* ------------------------------------------------------------------ a caller of the state equations
\* The call of op has not been made yet
Starts(op) == call.op = op /\ ret = Pending /\ UNCHANGED <<call, comps, result, prev, rel, cli, par>>

\* The call of the function named op of State under the equation E: the
\* solver answers and the call returns
Returns(op, E) ==
    \E o \in Call("State", <<op, E, call>>) : roots' = o.roots /\ ret' = o.ret

InitEos ==
    /\ comps = <<>>
    /\ result = Pending
    /\ prev = NoCall
    /\ rel = "none"
    /\ call \in EosCalls
    /\ roots = Pending
    /\ ret = Pending
    /\ cli = NoRun
    /\ par = NoCall

\* State::z
Z ==
    /\ Starts("z")
    /\ Returns("z", call.eos)

\* State::z of src/src/lib.rs
ZAbc ==
    /\ Starts("z(a, b, c)")
    /\ \E o \in Call("z(a, b, c)", <<call>>) : roots' = o.roots /\ ret' = o.ret

\* StateEos::z_eos
ZEos ==
    /\ Starts("z_eos")
    /\ Returns("z", ZEosType(call.eos))

\* State::molar_volume
MolarVolume ==
    /\ Starts("molar_volume")
    /\ Returns("molar_volume", call.eos)

\* StateEos::molar_volume_eos
MolarVolumeEos ==
    /\ Starts("molar_volume_eos")
    /\ Returns("molar_volume", ZEosType(call.eos))

\* State::specific_mass
SpecificMass ==
    /\ Starts("specific_mass")
    /\ Returns("specific_mass", call.eos)

\* StateEos::specific_mass_eos
SpecificMassEos ==
    /\ Starts("specific_mass_eos")
    /\ Returns("specific_mass", ZEosType(call.eos))

\* ExtensiveState::mols
Mols ==
    /\ Starts("mols")
    /\ Returns("mols", call.eos)

\* ExtensiveStateEos::mols_eos
MolsEos ==
    /\ Starts("mols_eos")
    /\ Returns("mols", ZEosType(call.eos))

\* ExtensiveState::volume
Volume ==
    /\ Starts("volume")
    /\ Returns("volume", call.eos)

\* ExtensiveStateEos::volume_eos
VolumeEos ==
    /\ Starts("volume_eos")
    /\ Returns("volume", ZEosType(call.eos))

\* ExtensiveState::mass
Mass ==
    /\ Starts("mass")
    /\ Returns("mass", call.eos)

\* ExtensiveStateEos::mass_eos
MassEos ==
    /\ Starts("mass_eos")
    /\ Returns("mass", ZEosType(call.eos))

\* E::z_polyn(params, p, t)
ZPolyn ==
    /\ Starts("z_polyn")
    /\ ret' = Value(Call("z_polyn", <<call.eos, call.params, call.p, call.t>>))
    /\ UNCHANGED roots

\* E::pressure(params, vm, t) at the molar volume vm = z * R * t / p of a
\* compression factor z, on the parameters, pressure and temperature of a
\* call of E::z_polyn
PressureAt(c) ==
    /\ call' = c
    /\ ret' = Value(Call("pressure", <<c.eos, c.params, c.vm, c.t>>))

Pressure ==
    /\ call.op = "z_polyn"
    /\ ret # Pending
    /\ \E z \in ZValues :
          /\ \E vm \in {Call("vm", <<z, call.p, call.t>>)} :
                PressureAt([op |-> "pressure", eos |-> call.eos,
                            params |-> call.params, vm |-> vm, t |-> call.t])
          /\ prev' = [call |-> call, ret |-> ret, z |-> z]
    /\ rel' = "pressure at z"
    /\ UNCHANGED <<comps, result, roots, cli, par>>

\* P::mix(items)
Mix ==
    /\ Starts("mix")
    /\ ret' = Value(Call("mix", <<call.type, call.items>>))
    /\ UNCHANGED roots

\* E::params(cs, w, t)
Params ==
    /\ Starts("params")
    /\ ret' = Value(Call("params", <<call.eos, call.cs, call.w, call.t>>))
    /\ UNCHANGED roots

\* State::molar_mass of a Mixture
MolarMassOf ==
    /\ Starts("molar_mass")
    /\ ret' = Value(MolarMass(call.gas))
    /\ UNCHANGED roots

\* The components that a call of P::mix or of Mixture::molar_mass goes
\* through, and the call on other components
ItemsOf(c) == IF c.op = "mix" THEN c.items ELSE c.gas.comps

WithItems(c, items) ==
    IF c.op = "mix" THEN [c EXCEPT !.items = items]
    ELSE [c EXCEPT !.gas = GasMixture(items)]

\* Component (f, x) with the fraction f / 2
Halved(c, item) ==
    IF c.op = "mix" THEN <<QDiv(item[1], QInt(2)), item[2]>>
    ELSE <<FDivInt(item[1], 2), item[2]>>

\* The call c is made and returns
Again(c) ==
    /\ call' = c
    /\ ret' = IF c.op = "mix" THEN Value(Call("mix", <<c.type, c.items>>))
              ELSE Value(MolarMass(c.gas))
    /\ prev' = [call |-> call, ret |-> ret]

\* P::mix or Mixture::molar_mass on the same components in another order
ItemsPermuted ==
    /\ call.op \in {"mix", "molar_mass"}
    /\ ret # Pending
    /\ rel = "none"
    /\ \E i \in 1..(Len(ItemsOf(call)) - 1) :
          /\ ItemsOf(call)[i] # ItemsOf(call)[i + 1]
          /\ Again(WithItems(call, Swap(ItemsOf(call), i, i + 1)))
    /\ rel' = "items permuted"
    /\ UNCHANGED <<comps, result, roots, cli, par>>

\* P::mix or Mixture::molar_mass on the same composition with one component
\* (f, x) given as two components (f / 2, x), the second one at the end
ItemSplit ==
    /\ call.op \in {"mix", "molar_mass"}
    /\ ret # Pending
    /\ rel = "none"
    /\ \E i \in 1..Len(ItemsOf(call)) :
          \E half \in {Halved(call, ItemsOf(call)[i])} :
             Again(WithItems(call, Append([ItemsOf(call) EXCEPT ![i] = half], half)))
    /\ rel' = "item split"
    /\ UNCHANGED <<comps, result, roots, cli, par>>

\* E::params again on the critical state of a call that has returned, with
\* another acentric factor or another temperature
ParamsAgain ==
    /\ call.op = "params"
    /\ ret # Pending
    /\ rel = "none"
    /\ \E c \in ParamsCalls :
          /\ c.eos = call.eos /\ c.cs = call.cs /\ c # call
          /\ call' = c
          /\ ret' = Value(Call("params", <<c.eos, c.cs, c.w, c.t>>))
    /\ prev' = [call |-> call, ret |-> ret]
    /\ rel' = "same critical state"
    /\ UNCHANGED <<comps, result, roots, cli, par>>

NextEos ==
    \/ Z
    \/ ZAbc
    \/ ZEos
    \/ MolarVolume
    \/ MolarVolumeEos
    \/ SpecificMass
    \/ SpecificMassEos
    \/ Mols
    \/ MolsEos
    \/ Volume
    \/ VolumeEos
    \/ Mass
    \/ MassEos
    \/ ZPolyn
    \/ Pressure
    \/ Mix
    \/ Params
    \/ ParamsAgain
    \/ MolarMassOf
    \/ ItemsPermuted
    \/ ItemSplit

SpecEos == InitEos /\ [][NextEos]_vars

\* ------------------------------------------------------------------ callers of the parser
\* Longest list of items the caller writes from the items below
MaxItems == 2

\* The names of the table of compounds::lookup, as the caller writes them
TableNames ==
    { <<"d", "r", "y", "_", "a", "i", "r">>,
      <<"A", "r">>,
      <<"B", "r", "2">>,
      <<"C", "l", "2">>,
      <<"F", "2">>,
      <<"H", "e">>,
      <<"H", "2">>,
      <<"I", "2">>,
      <<"K", "r">>,
      <<"N", "e">>,
      <<"N", "2">>,
      <<"O", "2">>,
      <<"X", "e">>,
      <<"C", "2", "H", "2">>,
      <<"C", "6", "H", "6">>,
      <<"C", "4", "H", "1", "0">>,
      <<"C", "4", "H", "8">>,
      <<"C", "6", "H", "1", "2">>,
      <<"C", "3", "H", "6">>,
      <<"C", "2", "H", "6">>,
      <<"C", "2", "H", "4">>,
      <<"N", "H", "3">>,
      <<"C", "O", "2">>,
      <<"C", "O">>,
      <<"N", "O">>,
      <<"S", "O", "2">>,
      <<"S", "O", "3">>,
      <<"H", "2", "O">>,
      <<"C", "H", "3", "C", "O", "O", "H">>,
      <<"C", "3", "H", "6", "O">>,
      <<"C", "2", "H", "5", "O", "H">>,
      <<"C", "H", "3", "O", "H">>,
      <<"C", "H", "3", "C", "L">> }

\* Names that are not in the table: another case, a trailing space, the
\* empty name, an unknown symbol
OtherNames == {<<"n", "2">>, <<"A", "R">>, <<"N", "2", " ">>, <<>>, <<"Z", "z">>}

\* The symbols the caller writes in the items of a list
Symbols == {<<"N", "2">>, <<"O", "2">>, <<"d", "r", "y", "_", "a", "i", "r">>, <<"Z", "z">>}

\* What the caller writes before the '%' of an item
Percents ==
    {<<"5", "0">>, <<"2", "5">>, <<"1", "5", "0">>, <<"n", "a", "n">>, <<"x">>,
     <<"1", "%", "2">>}

\* An item of a list: a symbol alone, or a percentage, '%' and a symbol
NoPercent == <<"none">>
Item(pct, sym) == [pct |-> pct, sym |-> sym]
Items == {Item(pct, sym) : pct \in Percents \cup {NoPercent}, sym \in Symbols}

ItemText(item) ==
    IF item.pct = NoPercent THEN item.sym ELSE (item.pct \o <<"%">>) \o item.sym

\* The description the caller writes for a list of items: the items joined
\* by '+'
RECURSIVE Description(_)
Description(items) ==
    IF Len(items) = 1 THEN ItemText(items[1])
    ELSE (ItemText(Head(items)) \o <<"+">>) \o Description(Tail(items))

\* The items of the description of dry air in tests::parse_dry_air_works,
\* "78.08%N2+20.95%O2+0.93%Ar+CO2"
DryAirItems ==
    << Item(<<"7", "8", ".", "0", "8">>, <<"N", "2">>),
       Item(<<"2", "0", ".", "9", "5">>, <<"O", "2">>),
       Item(<<"0", ".", "9", "3">>, <<"A", "r">>),
       Item(NoPercent, <<"C", "O", "2">>) >>

\* The calls of compounds::lookup and Gas::from_str
LookupCalls == [op : {"lookup"}, name : TableNames \cup OtherNames]

FromStrCalls ==
    [op : {"from_str"},
     items : {DryAirItems} \cup UNION {[1..n -> Items] : n \in 1..MaxItems}]

ParseCalls == LookupCalls \cup FromStrCalls

\* ------------------------------------------------------------------ a caller of the parser
InitParse ==
    /\ comps = <<>>
    /\ result = Pending
    /\ prev = NoCall
    /\ rel = "none"
    /\ call \in ParseCalls
    /\ roots = Pending
    /\ ret = Pending
    /\ cli = NoRun
    /\ par = NoCall

\* What a call gives its caller: the value it returns, or the panic
Outcome(r) == IF r.tag = "Panic" THEN r ELSE Value(r)

\* compounds::lookup
Lookup ==
    /\ Starts("lookup")
    /\ ret' = Outcome(lookup(Str(call.name)))
    /\ UNCHANGED roots

\* Gas::from_str
FromStr ==
    /\ Starts("from_str")
    /\ ret' = Outcome(GasFromStr(Description(call.items)))
    /\ UNCHANGED roots

NextParse ==
    \/ Lookup
    \/ FromStr

SpecParse == InitParse /\ [][NextParse]_vars

\* ------------------------------------------------------------------ a user of the command-line tool
\* The texts of the option --pressure: "1", "1:2", "1:3", "0:1:0.5",
\* "nan:1", "0:inf", "", "2:1", "1:2:0", "1:2:3:4", "x:1"
PressureTexts ==
    {<<"1">>,
     <<"1", ":", "2">>,
     <<"1", ":", "3">>,
     <<"0", ":", "1", ":", "0", ".", "5">>,
     <<"n", "a", "n", ":", "1">>,
     <<"0", ":", "i", "n", "f">>,
     <<>>,
     <<"2", ":", "1">>,
     <<"1", ":", "2", ":", "0">>,
     <<"1", ":", "2", ":", "3", ":", "4">>,
     <<"x", ":", "1">>}

\* The texts of the option --temperature: "25", "-300", "nan", "0:20:10",
\* "-300:-280:10", "nan:1", "-inf:0", "0:1:-1"
TemperatureTexts ==
    {<<"2", "5">>,
     <<"-", "3", "0", "0">>,
     <<"n", "a", "n">>,
     <<"0", ":", "2", "0", ":", "1", "0">>,
     <<"-", "3", "0", "0", ":", "-", "2", "8", "0", ":", "1", "0">>,
     <<"n", "a", "n", ":", "1">>,
     <<"-", "i", "n", "f", ":", "0">>,
     <<"0", ":", "1", ":", "-", "1">>}

\* The arguments of the command Z
CliArgs ==
    [gas : {<<"O", "2">>, <<"Z", "z">>}, eos : {<<"P", "R">>, <<>>},
     pressure : PressureTexts, temperature : TemperatureTexts]

InitCli ==
    /\ comps = <<>>
    /\ result = Pending
    /\ prev = NoCall
    /\ rel = "none"
    /\ call = NoCall
    /\ roots = Pending
    /\ ret = Pending
    /\ cli \in {[tag |-> "Args", args |-> a] : a \in CliArgs}
    /\ par = NoCall

\* run: every call of z_eos returns, or one of them panics
Run ==
    /\ cli.tag = "Args"
    /\ \E x \in CallRun("run", <<cli.args>>) :
            cli' = [tag |-> "Exit", args |-> cli.args, run |-> x]
    /\ UNCHANGED <<comps, result, prev, rel, call, roots, ret, par>>

NextCli == Run

SpecCli == InitCli /\ [][NextCli]_vars

\* ------------------------------------------------------------------ callers that share a gas
\* The callers: threads that hold a reference to the same gas
Threads == {1, 2}

\* The gas they share
SharedGas == ONLY_LIGHT

\* The calls of State::pressure a caller makes on it
SharedCalls ==
    [eos : {"PengRobinson"}, vm : {QInt(1)}, t : {QInt(144), QInt(576)}]

\* A caller at the start of a call, its first one or a later one (again):
\* the local of State::pressure is not set
Calling(c, again) ==
    [pc |-> "pressure", call |-> c, again |-> again, params |-> Pending,
     ret |-> Pending]

InitPar ==
    /\ comps = <<>>
    /\ result = Pending
    /\ prev = NoCall
    /\ rel = "none"
    /\ call = NoCall
    /\ roots = Pending
    /\ ret = Pending
    /\ cli = NoRun
    /\ par \in {[gas |-> SharedGas, th |-> th] :
                    th \in [Threads -> {Calling(c, FALSE) : c \in SharedCalls}]}

\* The caller i takes a step: its locals change, the gas and the other
\* callers do not
Steps(i, th) ==
    /\ par' = [par EXCEPT !.th[i] = th]
    /\ UNCHANGED <<comps, result, prev, rel, call, roots, ret, cli>>

\* let params = self.eos_params::<E>(t), from a cache of the parameters
\* that another caller has filled for the same equation
ThreadParamsCached(i) ==
    /\ par.th[i].pc = "pressure"
    /\ \E params \in
            {IF \E j \in Threads : /\ j # i
                                   /\ par.th[j].params # Pending
                                   /\ par.th[j].call.eos = par.th[i].call.eos
             THEN par.th[CHOOSE j \in Threads : /\ j # i
                                                /\ par.th[j].params # Pending
                                                /\ par.th[j].call.eos = par.th[i].call.eos].params
             ELSE Call("eos_params", <<par.gas, par.th[i].call.eos, par.th[i].call.t>>)} :
            Steps(i, [par.th[i] EXCEPT !.pc = "params", !.params = params])

\* let params = self.eos_params::<E>(t)
ThreadParams(i) ==
    /\ par.th[i].pc = "pressure"
    /\ \E params \in {Call("eos_params", <<par.gas, par.th[i].call.eos, par.th[i].call.t>>)} :
            Steps(i, [par.th[i] EXCEPT !.pc = "params", !.params = params])

\* E::pressure(&params, vm, t): the call returns
ThreadReturns(i) ==
    /\ par.th[i].pc = "params"
    /\ \E p \in {Call("pressure", <<par.th[i].call.eos, par.th[i].params,
                                    par.th[i].call.vm, par.th[i].call.t>>)} :
            Steps(i, [par.th[i] EXCEPT !.pc = "ret", !.ret = Value(p)])

\* The caller whose call has returned makes another call
ThreadCalls(i) ==
    /\ par.th[i].pc = "ret"
    /\ \E c \in SharedCalls : Steps(i, Calling(c, TRUE))

NextPar ==
    \E i \in Threads :
        \/ ThreadParams(i)
        \/ ThreadReturns(i)
        \/ ThreadCalls(i)

SpecPar == InitPar /\ [][NextPar]_vars

\* ------------------------------------------------------------------ properties
RECURSIVE SumFractions(_)
SumFractions(cs) ==
    IF cs = <<>> THEN Zero ELSE FAdd(Head(cs)[1], SumFractions(Tail(cs)))

\* The local comps of Mixture::new after the sort and before the merge
\* (gas.rs 130), for an input on which the call does not return early.
SortedComps(cs) ==
    LET st == Collect(cs) IN SortBy(Attribute(st.tmp, st.fill, st.num_voids))

IsOk == result.tag = "Ok"
Called == result # Pending

HasRemainder(cs) == \E i \in 1..Len(cs) : cs[i].kind = "Remainder"

\* C1: for every input on which Mixture::new returns Ok, the fractions of the
\* returned component list sum to 1, and the merge pass leaves the sum of
\* the sorted list unchanged.
C1_FractionSumIsOne ==
    IsOk => /\ SumFractions(result.comps) = One
            /\ SumFractions(SortedComps(comps)) = SumFractions(result.comps)

\* A successful build with two Remainders, one of them a nested mixture,
\* in which the merge pass has removed an entry.
C1_Witness ==
    /\ IsOk
    /\ NumRemainders(comps) = 2
    /\ \E i \in 1..Len(comps) : comps[i].kind = "Remainder" /\ comps[i].g.kind = "Mixture"
    /\ Len(result.comps) < Len(SortedComps(comps))

\* A Factor fraction in the open interval (0, 1)
InUnit(f) == FLt(Zero, f) /\ FLt(f, One)

AllValid(cs) == \A i \in 1..Len(cs) : cs[i].kind = "Factor" => InUnit(cs[i].f)

\* The first Factor fraction of the input, in input order, outside (0, 1)
FirstInvalid(cs) ==
    LET bad == {i \in 1..Len(cs) : cs[i].kind = "Factor" /\ ~InUnit(cs[i].f)}
        i0 == CHOOSE i \in bad : \A j \in bad : i <= j
    IN cs[i0].f

\* The molar fraction of molecule m that the input cs describes: a Factor
\* counts with its fraction, a Remainder with its equal share of what the
\* Factors leave, a nested mixture with the part of it that is m.
RECURSIVE PartOf(_, _)
PartOf(mixcomps, m) ==
    IF mixcomps = <<>> THEN Zero
    ELSE FAdd(IF Head(mixcomps)[2] = m THEN Head(mixcomps)[1] ELSE Zero,
              PartOf(Tail(mixcomps), m))

Share(cs, c, m) ==
    LET w == IF c.kind = "Factor" THEN c.f ELSE VoidWeight(cs) IN
    IF c.g.kind = "Molecule" THEN (IF c.g.m = m THEN w ELSE Zero)
    ELSE FMul(w, PartOf(c.g.comps, m))

RECURSIVE TotalFrom(_, _, _)
TotalFrom(cs, k, m) ==
    IF k > Len(cs) THEN Zero ELSE FAdd(Share(cs, cs[k], m), TotalFrom(cs, k + 1, m))

Total(cs, m) == TotalFrom(cs, 1, m)

SameComposition(cs1, cs2) == \A m \in Molecules : Total(cs1, m) = Total(cs2, m)

\* The order the canonical form is documented to use between molecules:
\* molar mass, then critical state, then acentric factor.
IdentityCmp(a, b) ==
    ThenCmp(F64PartialCmp(a.m, b.m),
        ThenCmp(PvtPartialCmp(a.critical_state, b.critical_state),
                F64PartialCmp(a.w, b.w)))

\* C2: Mixture::new is order-independent; stated here for the successful
\* builds: when a list and a permutation of it both build, the two Mixtures
\* are identical.
C2_OrderIndependent ==
    (rel = "permuted" /\ IsOk /\ prev.result.tag = "Ok") => result = prev.result

\* C3: two successful builds whose inputs describe the same composition (the
\* same total fraction of every molecule) return structurally equal Mixtures.
C3_SameCompositionSameMixture ==
    (prev # NoCall /\ IsOk /\ prev.result.tag = "Ok" /\ SameComposition(prev.comps, comps))
        => result = prev.result

\* C4: in a returned Mixture no two components have the same Molecule.
C4_MoleculesDistinct ==
    IsOk => \A i, j \in 1..Len(result.comps) :
                i < j => result.comps[i][2] # result.comps[j][2]

\* C5: the component list of a returned Mixture is in descending order of
\* fraction.
C5_DescendingFractions ==
    IsOk => \A i \in 1..(Len(result.comps) - 1) :
                FLe(result.comps[i + 1][1], result.comps[i][1])

\* C6: in the sorted list, two entries of equal fraction and of different
\* Molecules never compare as equal, and are in descending order of molar
\* mass, then critical state, then acentric factor.
C6_TieBreakByIdentity ==
    IsOk => LET s == SortedComps(comps) IN
            \A i, j \in 1..Len(s) :
                (i < j /\ s[i][1] = s[j][1] /\ s[i][2] # s[j][2])
                    => /\ CompCmp(s[i], s[j]) # "Equal"
                       /\ IdentityCmp(s[i][2], s[j][2]) = "Greater"

\* C7: every component of a returned Mixture has a fraction strictly
\* between 0 and 1.
C7_FractionsInOpenUnit ==
    IsOk => \A i \in 1..Len(result.comps) : InUnit(result.comps[i][1])

\* C8: when every explicit fraction is in (0, 1), Mixture::new returns
\* Err(MixtureNotWhole) exactly when the explicit fill is above 1, or differs
\* from 1 with no Remainder in the input, and returns Ok in every other case.
C8_NotWholeExactly ==
    (Called /\ AllValid(comps)) =>
        LET fill == ExplicitFill(comps)
            notWhole == FLt(One, fill) \/ (fill # One /\ ~HasRemainder(comps))
        IN IF notWhole THEN result = MixtureNotWhole ELSE IsOk

\* A call with three valid fractions that leave a gap and no Remainder
\* (as {0.5, 0.3, 0.1} in the tests), answered by MixtureNotWhole
C8_Witness ==
    /\ result = MixtureNotWhole
    /\ Len(comps) = 3
    /\ AllValid(comps)
    /\ ~HasRemainder(comps)
    /\ FLt(ExplicitFill(comps), One)

\* C9: when some Factor fraction is <= 0 or >= 1, Mixture::new returns
\* Err(InvalidFraction(v)) for the first such v in input order, whatever the
\* other components are.
C9_FirstInvalidFraction ==
    (Called /\ ~AllValid(comps)) => result = InvalidFraction(FirstInvalid(comps))

\* A call with two different invalid fractions after a valid one, in a list
\* with no Remainder whose valid fractions do not fill the mixture
C9_Witness ==
    /\ Called
    /\ Len(comps) = 3
    /\ comps[1].kind = "Factor" /\ InUnit(comps[1].f)
    /\ comps[2].kind = "Factor" /\ comps[2].f = One
    /\ comps[3].kind = "Factor" /\ comps[3].f = Zero
    /\ result = InvalidFraction(One)

\* C10: a build with a nested mixture returns the same Mixture as the build
\* with the flat components Factor(f * fi, mi), or Factor(fi * voidWeight, mi)
\* for a Remainder, in its place.
C10_NestedEqualsFlat ==
    rel = "flattened" => result = prev.result

\* The local comps of Mixture::new after the void attribution and before the
\* sort (gas.rs 117), for an input on which the call does not return early.
AttributedComps(cs) ==
    LET st == Collect(cs) IN Attribute(st.tmp, st.fill, st.num_voids)

\* The entries the input cs stands for, in input order, read off the input:
\* a molecule with the weight of its component, the molecules of a nested
\* mixture with their inner fractions times that weight. The weight of a
\* Factor is its fraction, the weight of a Remainder is (1 - F) / k.
EntriesOf(cs, c) ==
    LET w == IF c.kind = "Factor" THEN c.f ELSE VoidWeight(cs) IN
    IF c.g.kind = "Molecule" THEN << <<w, c.g.m>> >>
    ELSE [k \in 1..Len(c.g.comps) |-> <<FMul(c.g.comps[k][1], w), c.g.comps[k][2]>>]

RECURSIVE EntriesFrom(_, _)
EntriesFrom(cs, k) ==
    IF k > Len(cs) THEN <<>> ELSE EntriesOf(cs, cs[k]) \o EntriesFrom(cs, k + 1)

\* C11: when the input has k >= 1 Remainders and its explicit fill F is at
\* most 1 (and no fraction is rejected), the void attribution gives a
\* Remainder molecule the fraction (1 - F) / k, multiplies every entry of a
\* Remainder sub-mixture by (1 - F) / k, and leaves the Factor entries as
\* they were pushed.
C11_RemainderWeight ==
    (Called /\ AllValid(comps) /\ HasRemainder(comps)
        /\ FLe(ExplicitFill(comps), One))
        => AttributedComps(comps) = EntriesFrom(comps, 1)

\* A call with a Factor and two Remainders, one a molecule and one a nested
\* mixture of at least two molecules, whose Factor leaves a part to share
C11_Witness ==
    /\ IsOk
    /\ NumRemainders(comps) = 2
    /\ FLt(ExplicitFill(comps), One)
    /\ \E i, j, k \in 1..Len(comps) :
          /\ comps[i].kind = "Remainder" /\ comps[i].g.kind = "Mixture"
          /\ Len(comps[i].g.comps) >= 2
          /\ comps[j].kind = "Remainder" /\ comps[j].g.kind = "Molecule"
          /\ comps[k].kind = "Factor"

\* ------------------------------------------------------------------ properties of the state equations
\* The equation of a call of State::z or StateEos::z_eos
EosOf(c) == IF c.op = "z_eos" THEN ZEosType(c.eos) ELSE c.eos

\* A call of State::z or StateEos::z_eos that has returned or panicked
ZCalled == call # NoCall /\ call.op \in {"z", "z_eos"} /\ ret # Pending

\* The real roots in the answer of the solver
RealRoots == {roots[i] : i \in {j \in 1..Len(roots) : ~QIsNan(roots[j])}}

\* C12: when State::z returns, the value is a root in the answer of the
\* solver and no root of the answer is larger: the largest real root is the
\* one returned, whatever the order the solver gives them in.
C12_LargestRootReturned ==
    (ZCalled /\ ret.tag = "Value")
        => /\ ret.v \in RealRoots
           /\ \A r \in RealRoots : QLe(r, ret.v)

\* A call that returns while the solver has answered three roots, the
\* largest of them not the last, and a smaller root is positive too
C12_Witness ==
    /\ ZCalled /\ ret.tag = "Value"
    /\ Len(roots) = 3 /\ roots[3] # ret.v
    /\ \E r \in RealRoots : QLt(QZero, r) /\ QLt(r, ret.v)

\* C13: a Z returned by State::z is strictly positive, and State::z panics
\* exactly when the cubic has no real root or its largest real root is at
\* most 0.
C13_PositiveOrPanic ==
    ZCalled
        => /\ ret.tag \in {"Value", "Panic"}
           /\ ret.tag = "Value" => QLt(QZero, ret.v)
           /\ ret.tag = "Panic"
                <=> (RealRoots = {} \/ \A r \in RealRoots : QLe(r, QZero))

\* A call that panics on three real roots the largest of which is 0
C13_Witness ==
    /\ ZCalled /\ ret.tag = "Panic"
    /\ Len(roots) = 3 /\ QZero \in RealRoots
    /\ \E r \in RealRoots : QLt(r, QZero)

\* The (gas, equation, p, t) of a call of State::z
SubjectOf(c) == <<c.gas, EosOf(c), c.p, c.t>>

\* The call of State::z on O2 under VanDerWaals at a temperature that is
\* NaN, and the message of its panic
NanCall ==
    [op |-> "z", gas |-> GasMolecule(O2), eos |-> "VanDerWaals",
     p |-> Atmosphere, t |-> QNaN]

NanCallMessage == ZFromRoots(<<QNaN>>).msg

\* C14: the panic of State::z carries a diagnostic that identifies the gas,
\* the equation, p and t: the message of a panic on another (gas, equation,
\* p, t) than that of NanCall is not the message of the panic of NanCall.
C14_DiagnosticIdentifiesCall ==
    (ZCalled /\ ret.tag = "Panic" /\ SubjectOf(call) # SubjectOf(NanCall))
        => ret.msg # NanCallMessage

\* The quantity a call asks for, whether its equation is a type parameter
\* or a value of Eos
QuantityOf(c) ==
    CASE c.op \in {"molar_volume", "molar_volume_eos"} -> "molar_volume"
      [] c.op \in {"specific_mass", "specific_mass_eos"} -> "specific_mass"
      [] c.op \in {"mols", "mols_eos"} -> "mols"
      [] c.op \in {"volume", "volume_eos"} -> "volume"
      [] c.op \in {"mass", "mass_eos"} -> "mass"
      [] OTHER -> "none"

\* A call of a derived quantity that has returned or panicked
DerivedCalled == call # NoCall /\ QuantityOf(call) # "none" /\ ret # Pending

\* z * R * t
ZRT(z, t) == QProd(<<z, R, t>>)

\* The quantity of call c at the compression factor z, as the formulas
\* Z R t / p, M p / (Z R t), p v / (Z R t), n Z R t / p and M mols give it
QuantityAt(c, z) ==
    CASE QuantityOf(c) = "molar_volume" -> QDiv(ZRT(z, c.t), c.p)
      [] QuantityOf(c) = "specific_mass" -> QDiv(QMul(MolarMass(c.gas), c.p), ZRT(z, c.t))
      [] QuantityOf(c) = "mols" -> QDiv(QMul(c.p, c.v), ZRT(z, c.t))
      [] QuantityOf(c) = "volume" -> QDiv(QMul(c.n, ZRT(z, c.t)), c.p)
      [] QuantityOf(c) = "mass" ->
            QMul(MolarMass(c.gas), QDiv(QMul(c.p, c.v), ZRT(z, c.t)))

\* C15: a derived quantity (molar_volume, specific_mass, mols, volume, mass
\* and their *_eos forms) panics exactly when State::z panics on the same
\* answer of the solver, with the panic of z; when z returns Z it returns
\* Z R t / p, M p / (Z R t), p v / (Z R t), n Z R t / p or M mols.
C15_DerivedFollowZ ==
    DerivedCalled
        => /\ ret.tag \in {"Value", "Panic"}
           /\ ZFromRoots(roots).tag = "Panic" => ret = ZFromRoots(roots)
           /\ ZFromRoots(roots).tag = "Value"
                => ret = Value(QuantityAt(call, ZFromRoots(roots).v))

\* A call of mass on a mixture that returns, at a Z that is not 1
C15_Witness ==
    /\ DerivedCalled /\ ret.tag = "Value"
    /\ call.op = "mass" /\ call.gas.kind = "Mixture"
    /\ ZFromRoots(roots) = Value(QInt(2))

\* C16: under IdealGas, State::z returns exactly 1 for every gas and every
\* (p, t), a temperature that is NaN included: the polynomial is Z - 1,
\* coefficients [0, 0, 1, -1], and its root 1 passes the selection.
C16_IdealGasIsOne ==
    (ZCalled /\ EosOf(call) = "IdealGas")
        => /\ ZPolynOf(call.gas, "IdealGas", call.p, call.t)
                = <<QZero, QZero, QOne, QInt(-1)>>
           /\ roots = <<QOne>>
           /\ ret = Value(QOne)

\* A call under IdealGas on a mixture at no pressure that has returned
C16_Witness ==
    /\ ZCalled /\ EosOf(call) = "IdealGas" /\ ret.tag = "Value"
    /\ call.gas.kind = "Mixture" /\ call.p = QZero

\* The value of the polynomial poly = [a3, a2, a1, a0] at z
PolynAt(poly, z) ==
    QAdd(QAdd(QAdd(QProd(<<poly[1], z, z, z>>), QProd(<<poly[2], z, z>>)),
              QMul(poly[3], z)),
         poly[4])

\* The caller has asked E::pressure at the molar volume z R t / p of a
\* compression factor z, after E::z_polyn on the same parameters, p and t
PressureAsked == rel = "pressure at z" /\ ret # Pending

\* C17: for every equation of state, if z is a root of z_polyn(params, p, t)
\* and the denominators of the pressure at vm = z R t / p are not zero (the
\* pressure is finite), then pressure(params, vm, t) = p.
C17_PressureRoundTrip ==
    (PressureAsked /\ PolynAt(prev.ret.v, prev.z) = QZero /\ QIsFinite(ret.v))
        => ret.v = prev.call.p

\* A pressure asked back under PatelTejaValderrama at a root that is not 1
C17_Witness ==
    /\ PressureAsked /\ PolynAt(prev.ret.v, prev.z) = QZero /\ QIsFinite(ret.v)
    /\ call.eos = "PatelTejaValderrama" /\ prev.z # QOne

\* C18: at p = 0 and a temperature above 0, the Z polynomial of every
\* equation other than IdealGas is Z^3 - Z^2, coefficients [1, -1, 0, 0]
\* (the reduced parameters A, B and C are 0), and State::z returns its
\* largest root 1, the value Z tends to as p tends to 0.
C18_DiluteLimit ==
    (ZCalled /\ EosOf(call) # "IdealGas" /\ call.p = QZero /\ QLt(QZero, call.t))
        => /\ ZPolynOf(call.gas, EosOf(call), call.p, call.t)
                = <<QOne, QInt(-1), QZero, QZero>>
           /\ ret = Value(QOne)

\* A call on a mixture under PatelTejaValderrama at no pressure, where the
\* solver has answered the double root 0 and the root 1
C18_Witness ==
    /\ ZCalled /\ EosOf(call) = "PatelTejaValderrama" /\ call.p = QZero
    /\ call.gas.kind = "Mixture" /\ ret.tag = "Value"
    /\ roots = <<QZero, QZero, QOne>>

\* The sum of a sequence of values
RECURSIVE QSum(_)
QSum(xs) == IF xs = <<>> THEN QZero ELSE QAdd(QSum(SubSeq(xs, 1, Len(xs) - 1)), xs[Len(xs)])

\* f_i f_j sqrt(a_i a_j) for every ordered pair (i, j) of items, i = j
\* included, in one sequence
PairTerms(items) ==
    [k \in 1..(Len(items) * Len(items)) |->
        LET i == ((k - 1) % Len(items)) + 1
            j == ((k - 1) \div Len(items)) + 1
        IN QMul(QMul(items[i][1], items[j][1]),
                QSqrt(QMul(items[i][2].a, items[j][2].a)))]

\* f_i x_i for every item, x being the field b or c of its parameters
LinearTerms(items, x) == [i \in 1..Len(items) |-> QMul(items[i][1], items[i][2][x])]

\* A call of P::mix that has returned
MixCalled == call # NoCall /\ call.op = "mix" /\ ret # Pending

\* C19: P::mix over the weighted parameters (f_i, p_i) returns a = the sum
\* over all ordered pairs (i, j), i = j included, of f_i f_j sqrt(a_i a_j),
\* b = the sum of f_i b_i and, for AbcParams, c = the sum of f_i c_i; for
\* the empty parameter set () it returns ().
C19_MixingRule ==
    MixCalled
        => /\ call.type = "()" => ret = Value(Unit)
           /\ call.type = "AbParams"
                => ret = Value(AbParams(QSum(PairTerms(call.items)),
                                        QSum(LinearTerms(call.items, "b"))))
           /\ call.type = "AbcParams"
                => ret = Value(AbcParams(QSum(PairTerms(call.items)),
                                         QSum(LinearTerms(call.items, "b")),
                                         QSum(LinearTerms(call.items, "c"))))

\* A call on two AbcParams items of different a, weights and c
C19_Witness ==
    /\ MixCalled /\ call.type = "AbcParams" /\ Len(call.items) = 2
    /\ call.items[1][1] # call.items[2][1]
    /\ call.items[1][2].a # call.items[2][2].a
    /\ call.items[1][2].c # call.items[2][2].c
    /\ ret.tag = "Value"

\* The slope m as the two polynomials in w give it, the first up to
\* w = 0.491 included
SlopeOf(w) ==
    IF QLe(w, QRat(491, 1000))
    THEN QSum(<<QRat(37464, 100000),
                QMul(QRat(156226, 100000), w),
                QNeg(QProd(<<QRat(26992, 100000), w, w>>))>>)
    ELSE QSum(<<QRat(379642, 1000000),
                QMul(QRat(1487503, 1000000), w),
                QNeg(QProd(<<QRat(164423, 1000000), w, w>>)),
                QNeg(QProd(<<QRat(16666, 1000000), w, w, w>>))>>)

\* alpha = (1 + m (1 - sqrt(t / Tc)))^2
AlphaOf(m, t, tc) ==
    QProd(<<QAdd(QOne, QMul(m, QSub(QOne, QSqrt(QDiv(t, tc))))),
            QAdd(QOne, QMul(m, QSub(QOne, QSqrt(QDiv(t, tc)))))>>)

\* A call of PengRobinson::params that has returned
PengRobinsonParamsCalled ==
    call # NoCall /\ call.op = "params" /\ call.eos = "PengRobinson" /\ ret # Pending

\* C20: PengRobinson::params takes m = 0.37464 + 1.56226 w - 0.26992 w^2
\* for w <= 0.491, 0.491 included, and m = 0.379642 + 1.487503 w
\* - 0.164423 w^2 - 0.016666 w^3 above; in both branches the a it returns
\* is alpha = (1 + m (1 - sqrt(t / Tc)))^2 times 0.4572355289213821 R^2
\* Tc^2 / pc.
C20_PengRobinsonSlope ==
    PengRobinsonParamsCalled
        => /\ ret.tag = "Value"
           /\ ret.v.a = QDiv(QProd(<<AlphaOf(SlopeOf(call.w), call.t, call.cs.t),
                                     QDec(<<4572, 3552, 8921, 3821>>, 16),
                                     R, R, call.cs.t, call.cs.t>>), call.cs.p)

\* A call at w = 0.491 and four times the critical temperature, where
\* alpha = (1 - m)^2 shows m
C20_Witness ==
    /\ PengRobinsonParamsCalled /\ ret.tag = "Value"
    /\ call.w = QRat(491, 1000)
    /\ call.t = QMul(QInt(4), call.cs.t)

\* The caller has asked E::params twice on one critical state, with
\* different acentric factors or temperatures
ParamsAskedAgain == rel = "same critical state"

\* C24: for every equation the b (and the c of PatelTejaValderrama) that
\* E::params(cs, w, t) returns depends on the critical state only: two
\* calls on the same cs with different t or w return the same b (and c);
\* for VanDerWaals and RedlichKwong the a is the same too.
C24_VolumeParameterOfCriticalState ==
    ParamsAskedAgain
        => /\ ParamsType(call.eos) = "()" => ret = prev.ret
           /\ ParamsType(call.eos) # "()" => ret.v.b = prev.ret.v.b
           /\ ParamsType(call.eos) = "AbcParams" => ret.v.c = prev.ret.v.c
           /\ call.eos \in {"VanDerWaals", "RedlichKwong"} => ret.v.a = prev.ret.v.a

\* Two calls under PatelTejaValderrama that differ in w and in t, and
\* whose a differ
C24_Witness ==
    /\ ParamsAskedAgain /\ call.eos = "PatelTejaValderrama"
    /\ call.w # prev.call.w /\ call.t # prev.call.t
    /\ ret.v.a # prev.ret.v.a

\* The caller has asked P::mix or Mixture::molar_mass again on the same
\* composition listed in another way
ListedAgain == rel \in {"items permuted", "item split"}

\* A call of State::z on a Mixture whose only component is (1, m)
OnlyComponentCalled ==
    /\ ZCalled /\ call.gas.kind = "Mixture"
    /\ Len(call.gas.comps) = 1 /\ call.gas.comps[1][1] = One

\* The Molecule of the only component of the gas of the call
OnlyMolecule == GasMolecule(call.gas.comps[1][2])

\* C25: P::mix (on parameters with a >= 0) and Mixture::molar_mass return
\* the same when the components are permuted and when a component (f, x)
\* is given as two components (f1, x) and (f2, x) with f1 + f2 = f; a
\* Mixture whose only component is (1, m) has the parameters and the molar
\* mass of the Molecule m, and with them its Z polynomial at one atmosphere
\* and its outcomes of State::z.
C25_ListingIndependent ==
    /\ ListedAgain => ret = prev.ret
    /\ OnlyComponentCalled
          => /\ EosParams(call.gas, EosOf(call), call.t)
                  = EosParams(OnlyMolecule, EosOf(call), call.t)
             /\ MolarMass(call.gas) = MolarMass(OnlyMolecule)
             /\ ZPolynOf(call.gas, EosOf(call), Atmosphere, call.t)
                  = ZPolynOf(OnlyMolecule, EosOf(call), Atmosphere, call.t)
             /\ [roots |-> roots, ret |-> ret]
                  \in StateCall("z", EosOf(call), [call EXCEPT !.gas = OnlyMolecule])

\* A call of P::mix on AbcParams of two different a, after the same call
\* with the first component in one piece
C25_Witness ==
    /\ rel = "item split" /\ call.op = "mix" /\ call.type = "AbcParams"
    /\ Len(call.items) = 3
    /\ call.items[1][2].a # call.items[2][2].a
    /\ call.items[1] = call.items[3]

\* A call of a derived quantity that has returned a value
DerivedReturned == DerivedCalled /\ ret.tag = "Value"

ZAbcCalled == call # NoCall /\ call.op = "z(a, b, c)" /\ ret # Pending

\* C27: in the State trait of src/src/lib.rs, the a, b and c that z passes
\* to E::z_polyn are the a::<E>(t), b::<E>() and c::<E>() of the gas, the
\* three parameters that pressure passes to E::pressure.
C27_SameParameters ==
    ZAbcCalled
        => /\ ZArgs(call.gas, call.eos, call.t)
                = <<StateA(call.gas, call.eos, call.t), StateB(call.gas, call.eos),
                    StateC(call.gas, call.eos)>>
           /\ ZArgs(call.gas, call.eos, call.t) = PressureArgs(call.gas, call.eos, call.t)

\* ------------------------------------------------------------------ properties of the parser
LookupCalled == call # NoCall /\ call.op = "lookup" /\ ret # Pending

FromStrCalled == call # NoCall /\ call.op = "from_str" /\ ret # Pending

\* The fraction a percentage stands for, x / 100
PercentFraction(pct) ==
    CASE pct = <<"5", "0">> -> Frac(1, 2)
      [] pct = <<"2", "5">> -> Frac(1, 4)
      [] pct = <<"1", "5", "0">> -> Frac(3, 2)
      [] pct = <<"n", "a", "n">> -> NaN
      [] pct = <<"7", "8", ".", "0", "8">> -> Frac(7808, 10000)
      [] pct = <<"2", "0", ".", "9", "5">> -> Frac(2095, 10000)
      [] pct = <<"0", ".", "9", "3">> -> Frac(93, 10000)

\* The percentages that are the text of a number
Numbers ==
    {<<"5", "0">>, <<"2", "5">>, <<"1", "5", "0">>, <<"n", "a", "n">>,
     <<"7", "8", ".", "0", "8">>, <<"2", "0", ".", "9", "5">>, <<"0", ".", "9", "3">>}

\* An item that is a symbol of the table, alone or after the text of a
\* number and one '%'
WellFormed(item) ==
    item.sym \in TableNames /\ item.pct \in Numbers \cup {NoPercent}

\* The component the description of an item stands for: Factor(x / 100,
\* lookup(SYM)) for 'x%SYM', Remainder(lookup(SYM)) for 'SYM'
ComponentOf(item) ==
    IF item.pct = NoPercent THEN Remainder(lookup(Str(item.sym)).v)
    ELSE Factor(PercentFraction(item.pct), lookup(Str(item.sym)).v)

ComponentsOf(items) == [i \in 1..Len(items) |-> ComponentOf(items[i])]

\* The first item of a list is the item with an unknown symbol, the items
\* before it are well formed and it has no more than one '%'
FirstUnknown(items, i) ==
    /\ items[i].sym \notin TableNames
    /\ items[i].pct \in Numbers \cup {NoPercent, <<"x">>}
    /\ \A j \in 1..(i - 1) : WellFormed(items[j])

\* C23: compounds::lookup returns None exactly for the names outside its
\* table and a gas for every name of the table, a Molecule or the mixture
\* of four components for "dry_air", and fails in no other way.  Gas::from_str
\* turns an unknown symbol, alone or in a list, into the error
\* UnknownMolecule(symbol) and a failure of the builder into
\* GasParseError::Mixture(err), and never panics.
C23_LookupAndParseErrors ==
    /\ LookupCalled =>
        /\ ret.tag = "Value"
        /\ call.name \notin TableNames <=> ret.v = None
        /\ call.name \in TableNames =>
            /\ ret.v.tag = "Some"
            /\ IF Str(call.name) = "dry_air"
               THEN ret.v.v.kind = "Mixture" /\ Len(ret.v.v.comps) = 4
               ELSE ret.v.v.kind = "Molecule"
    /\ FromStrCalled =>
        /\ ret.tag = "Value"
        /\ Len(call.items) = 1 /\ ItemText(call.items[1]) \notin TableNames
            => ret.v = UnknownMolecule(Str(ItemText(call.items[1])))
        /\ Len(call.items) > 1 =>
            /\ \A i \in 1..Len(call.items) :
                    FirstUnknown(call.items, i)
                        => ret.v = UnknownMolecule(Str(call.items[i].sym))
            /\ (\A i \in 1..Len(call.items) : WellFormed(call.items[i]))
               /\ MixtureNew(ComponentsOf(call.items)).tag = "Err"
                    => ret.v = GasParseErrorMixture(MixtureNew(ComponentsOf(call.items)))

\* A list whose second item has an unknown symbol has been parsed, and a
\* list that the builder refuses
C23_Witness ==
    /\ FromStrCalled
    /\ Len(call.items) = 2
    /\ ret.tag = "Value"
    /\ ret.v = UnknownMolecule("Zz")
    /\ WellFormed(call.items[1])

\* C22: parsing a description builds the gas the builder builds: a symbol
\* alone parses to lookup(symbol), a list parses to Mixture::new of one
\* component for each item, Factor(x / 100, lookup(SYM)) for 'x%SYM' and
\* Remainder(lookup(SYM)) for 'SYM'; dry air parsed from
\* "78.08%N2+20.95%O2+0.93%Ar+CO2" is the dry air built from its components
\* and has the same molar mass and the same polynomial in Z.
BuiltAir ==
    MixtureNew(<< Factor(Frac(7808, 10000), GasMolecule(N2)),
                  Factor(Frac(2095, 10000), GasMolecule(O2)),
                  Factor(Frac(93, 10000), GasMolecule(AR)),
                  Remainder(GasMolecule(CO2)) >>)

Ran == cli.tag = "Exit"

\* run has ended and its four arguments were parsed
RanParsed ==
    /\ Ran
    /\ GasFromStr(cli.args.gas).tag = "Ok"
    /\ EosFromStr(cli.args.eos).tag = "Ok"
    /\ VarFromStr(cli.args.pressure).tag = "Ok"
    /\ VarFromStr(cli.args.temperature).tag = "Ok"

PressureVar == VarFromStr(cli.args.pressure).var
TemperatureVar == VarFromStr(cli.args.temperature).var

\* The values a variable of the command line stands for: the scalar, or
\* the list to_vec gave for the range
ValuesOf(x, list) ==
    IF x.var = "Scalar" THEN {x.v}
    ELSE IF list.tag = "Value" THEN {list.v[i] : i \in 1..Len(list.v)}
    ELSE {}

\* C28: the command Z takes the pressure in bar and the temperature in
\* degrees Celsius and passes both to z_eos in SI units, p * 1e5 Pa and
\* t + 273.15 K, for scalars as for ranges.
C28_ConvertedToSI ==
    RanParsed =>
        \A i \in 1..Len(cli.run.calls) :
            \E p \in ValuesOf(PressureVar, cli.run.p) :
                \E t \in ValuesOf(TemperatureVar, cli.run.t) :
                    cli.run.calls[i]
                        = <<QMul(p, QRat(100000, 1)), QAdd(t, QRat(27315, 100))>>

\* The least value of a variable is below -273.15
BelowZeroK(x) ==
    IF x.var = "Scalar" THEN QLt(x.v, QRat(-27315, 100))
    ELSE QLt(x.start, QRat(-27315, 100))

\* C29: when the temperature of the command Z has a value below -273.15
\* degrees Celsius, run returns the error "Temperature below zero K !" and
\* calls z_eos for no point, for a scalar as for a range.
C29_ValidatedBeforeResolver ==
    /\ RanParsed
    /\ BelowZeroK(TemperatureVar)
    /\ cli.run.p.tag # "Panic"
    /\ cli.run.t.tag # "Panic"
    => /\ cli.run.exit = "Err"
       /\ cli.run.err = "Temperature below zero K !"
       /\ cli.run.calls = <<>>

\* The list to_vec gives for a variable: not empty, from start, by step,
\* strictly increasing and not above end + 2 epsilon
IsRangeList(x, list) ==
    /\ list.tag = "Value"
    /\ list.v # <<>>
    /\ IF x.var = "Scalar" THEN list.v = <<x.v>>
       ELSE /\ list.v[1] = x.start
            /\ \A i \in 1..(Len(list.v) - 1) :
                    /\ list.v[i + 1] = QAdd(list.v[i], UnwrapOr(x.step, QOne))
                    /\ QLt(list.v[i], list.v[i + 1])
            /\ \A i \in 1..Len(list.v) :
                    QLe(list.v[i], QAdd(x.end, QMul(QInt(2), EPSILON)))

\* Texts the parser has to refuse: empty, end <= start, step <= 0, four
\* fields
RefusedTexts ==
    {<<>>, <<"2", ":", "1">>, <<"1", ":", "2", ":", "0">>,
     <<"0", ":", "1", ":", "-", "1">>, <<"1", ":", "2", ":", "3", ":", "4">>}

\* C30: for every Var the parser accepts, to_vec ends and returns a list
\* that is not empty, starts at start, advances by step (1 when none is
\* written), is strictly increasing and has no value above end + 2 epsilon;
\* the parser refuses the empty text, end <= start, step <= 0 and more
\* than three fields.
C30_RangeList ==
    /\ RanParsed =>
        /\ cli.run.p # NotCalled => IsRangeList(PressureVar, cli.run.p)
        /\ cli.run.t # NotCalled => IsRangeList(TemperatureVar, cli.run.t)
    /\ Ran =>
        /\ cli.args.pressure \in RefusedTexts
            => VarFromStr(cli.args.pressure).tag = "Err"
        /\ cli.args.temperature \in RefusedTexts
            => VarFromStr(cli.args.temperature).tag = "Err"
        /\ /\ GasFromStr(cli.args.gas).tag = "Ok"
           /\ EosFromStr(cli.args.eos).tag = "Ok"
           /\ \/ cli.args.pressure \in RefusedTexts
              \/ cli.args.temperature \in RefusedTexts
           => cli.run.exit = "Err" /\ cli.run.calls = <<>>

\* ------------------------------------------------------------------ properties of the callers that share a gas
\* What the call c of State::pressure returns when it runs alone
Alone(c) ==
    {Value(Call("pressure", <<c.eos, params, c.vm, c.t>>)) :
        params \in {Call("eos_params", <<SharedGas, c.eos, c.t>>)}}

====
